---- MODULE Spec2Model ----
(***************************************************************************)
(* Timeline cache-aside engine of the Twitter demo: the Store (primary and *)
(* lagging replica), the Redis cache helper, the Kafka event bus with its  *)
(* consumer, and the HTTP handlers that read and write through them.       *)
(* Every handler is a sequence of steps, one per access to shared state    *)
(* (a Store statement, a cache command, a publish); purely local work is   *)
(* folded into the step that follows it.                                   *)
(***************************************************************************)
EXTENDS Integers, Sequences, FiniteSets, TLC

\* ---------------------------------------------------------------- bounds
MaxReqs == 3        \* requests issued in one behaviour
MaxReqsTTL == 4     \* requests issued in one behaviour of SpecTTL and of SpecFeed
MaxTweets == 2      \* values the tweets id sequence hands out
MaxLimit == 1       \* page sizes a request may ask for: 1..MaxLimit
MaxOffset == 1      \* page offsets a request may ask for: 0..MaxOffset
MaxTicks == 2       \* clock ticks in one behaviour
MaxCalls == 3       \* calls of db.transaction in one behaviour of SpecPool
TickLen == 30       \* seconds per clock tick

\* ------------------------------------------------------ program constants
TimelineTTL == 60   \* getOrSet(cacheKey, fetch, 60)
TweetTTL == 300     \* set(`tweet:${id}`, tweet, 300)
PoolMax == 10       \* max: parseInt(process.env.DB_POOL_MAX) || 10

Users == {1, 11}          \* rows of the users table
UserIds == {1, 2, 11}     \* ids a request may name (2 is not registered)
TweetIds == 1..MaxTweets
Reqs == 1..(IF MaxReqsTTL > MaxReqs THEN MaxReqsTTL ELSE MaxReqs)
Limits == 1..MaxLimit
Offsets == 0..MaxOffset
Calls == 1..MaxCalls
NoArg == 0

\* ------------------------------------------------------------- cache keys
\* Keys and patterns are token sequences: a literal prefix, ":" separators,
\* one token per decimal digit, and "*" in patterns.
Digit(d) == CASE d = 0 -> "0" [] d = 1 -> "1" [] d = 2 -> "2" [] d = 3 -> "3"
              [] d = 4 -> "4" [] d = 5 -> "5" [] d = 6 -> "6" [] d = 7 -> "7"
              [] d = 8 -> "8" [] OTHER -> "9"

RECURSIVE ToStr(_)
ToStr(n) == IF n < 10 THEN <<Digit(n)>> ELSE ToStr(n \div 10) \o <<Digit(n % 10)>>

TimelineKeyNoOffset(v, limit, offset) == <<"timeline", ":">> \o ToStr(v) \o <<":">> \o ToStr(limit)

TimelineKey(v, limit, offset) ==
  <<"timeline", ":">> \o ToStr(v) \o <<":">> \o ToStr(limit) \o <<":">> \o ToStr(offset)

TimelinePatternAll(v) == <<"timeline", ":", "*">>

TimelinePattern(v) == <<"timeline", ":">> \o ToStr(v) \o <<":", "*">>

AllTimelines == <<"timeline", ":", "*">>

TweetKey(t) == <<"tweet", ":">> \o ToStr(t)

\* Redis glob matching, restricted to literal tokens and "*".
RECURSIVE GlobMatch(_, _)
GlobMatch(p, k) ==
  IF p = <<>> THEN k = <<>>
  ELSE IF Head(p) = "*"
       THEN GlobMatch(Tail(p), k) \/ (k # <<>> /\ GlobMatch(p, Tail(k)))
       ELSE k # <<>> /\ Head(k) = Head(p) /\ GlobMatch(Tail(p), Tail(k))

\* ------------------------------------------------------------------ Store
\* follows: the (follower_id, following_id) pairs that have a row; frows: how
\* many rows of the follows table carry each pair; users: the counters of the
\* users rows.
UserRow == [follower_count |-> 0, following_count |-> 0]

EmptyStore == [follows |-> {}, frows |-> <<>>, tweets |-> <<>>, likes |-> {}, retweets |-> {},
               users |-> [u \in Users |-> UserRow]]

\* update_follow_counts: n rows (follower, following) inserted (n > 0) or deleted (n < 0).
FollowCounts(users, follower, following, n) ==
  [u \in DOMAIN users |->
     [follower_count |-> users[u].follower_count + (IF u = following THEN n ELSE 0),
      following_count |-> users[u].following_count + (IF u = follower THEN n ELSE 0)]]

TweetRow(id, user, replyTo) ==
  [id |-> id, user_id |-> user, reply_to |-> replyTo,
   like_count |-> 0, retweet_count |-> 0, reply_count |-> 0]

\* One write statement applied to a Store state (row triggers included).
ApplyOp(s, op) ==
  CASE op.op = "ins_follow" ->
         [s EXCEPT !.follows = @ \cup {<<op.a, op.b>>},
                   !.frows = (<<op.a, op.b>> :> (IF <<op.a, op.b>> \in DOMAIN @
                                                 THEN @[<<op.a, op.b>>] + 1 ELSE 1)) @@ @,
                   !.users = FollowCounts(@, op.a, op.b, 1)]
    [] op.op = "del_follow" ->
         [s EXCEPT !.follows = @ \ {<<op.a, op.b>>},
                   !.frows = [p \in DOMAIN @ \ {<<op.a, op.b>>} |-> @[p]],
                   !.users = FollowCounts(@, op.a, op.b,
                                          IF <<op.a, op.b>> \in DOMAIN s.frows
                                          THEN 0 - s.frows[<<op.a, op.b>>] ELSE 0)]
    [] op.op = "ins_tweet" ->
         [s EXCEPT !.tweets = @ @@ (op.a :> TweetRow(op.a, op.b, op.c))]
    [] op.op = "inc_reply" ->
         IF op.a \in DOMAIN s.tweets
         THEN [s EXCEPT !.tweets[op.a].reply_count = @ + 1] ELSE s
    [] op.op = "ins_like" ->
         [s EXCEPT !.likes = @ \cup {<<op.a, op.b>>},
                   !.tweets = IF op.b \in DOMAIN @
                              THEN [@ EXCEPT ![op.b].like_count = @ + 1] ELSE @]
    [] op.op = "del_like" ->
         [s EXCEPT !.likes = @ \ {<<op.a, op.b>>},
                   !.tweets = IF op.b \in DOMAIN @ /\ <<op.a, op.b>> \in s.likes
                              THEN [@ EXCEPT ![op.b].like_count = @ - 1] ELSE @]
    [] op.op = "ins_retweet" ->
         [s EXCEPT !.retweets = @ \cup {<<op.a, op.b>>},
                   !.tweets = IF op.b \in DOMAIN @
                              THEN [@ EXCEPT ![op.b].retweet_count = @ + 1] ELSE @]
    [] op.op = "del_retweet" ->
         [s EXCEPT !.retweets = @ \ {<<op.a, op.b>>},
                   !.tweets = IF op.b \in DOMAIN @ /\ <<op.a, op.b>> \in s.retweets
                              THEN [@ EXCEPT ![op.b].retweet_count = @ - 1] ELSE @]
    [] op.op = "inc_retweet" ->
         IF op.a \in DOMAIN s.tweets
         THEN [s EXCEPT !.tweets[op.a].retweet_count = @ + 1] ELSE s
    [] op.op = "dec_retweet" ->
         IF op.a \in DOMAIN s.tweets /\ s.tweets[op.a].retweet_count > 0
         THEN [s EXCEPT !.tweets[op.a].retweet_count = @ - 1] ELSE s
    [] op.op = "del_tweet" ->
         [follows |-> s.follows, frows |-> s.frows, users |-> s.users,
          tweets |-> [t \in DOMAIN s.tweets \ {op.a} |->
                        IF s.tweets[t].reply_to = op.a
                        THEN [s.tweets[t] EXCEPT !.reply_to = NoArg] ELSE s.tweets[t]],
          likes |-> {l \in s.likes : l[2] # op.a},
          retweets |-> {l \in s.retweets : l[2] # op.a}]
    [] OTHER -> s

RECURSIVE ApplyAll(_, _)
ApplyAll(s, ops) == IF ops = <<>> THEN s ELSE ApplyAll(ApplyOp(s, Head(ops)), Tail(ops))

Max(S) == CHOOSE m \in S : \A x \in S : x <= m

RECURSIVE SortDesc(_)
SortDesc(S) == IF S = {} THEN <<>> ELSE <<Max(S)>> \o SortDesc(S \ {Max(S)})

SliceNoOffset(seq, limit, offset) == SubSeq(seq, 1, IF limit <= Len(seq) THEN limit ELSE Len(seq))

\* LIMIT $2 OFFSET $3
Slice(seq, limit, offset) ==
  IF offset >= Len(seq) THEN <<>>
  ELSE SubSeq(seq, offset + 1, IF offset + limit <= Len(seq) THEN offset + limit ELSE Len(seq))

\* The fan-out query of the timeline route: ids of the tweets written by the
\* viewer or by anyone the viewer follows, newest first (created_at follows
\* the id sequence), LIMIT/OFFSET applied.
FanOutIds(s, v, limit, offset) ==
  LET authors == {g \in Users : <<v, g>> \in s.follows} \cup {v}
      ids == {t \in DOMAIN s.tweets : s.tweets[t].user_id \in authors}
  IN Slice(SortDesc(ids), limit, offset)

FanOut(s, v, limit, offset) ==
  LET ids == FanOutIds(s, v, limit, offset)
  IN [i \in 1..Len(ids) |-> s.tweets[ids[i]]]

Ids(rows) == [i \in 1..Len(rows) |-> rows[i].id]

\* ------------------------------------------------------------------ state
VARIABLES
  primary,    \* the authoritative Store instance (primaryPool)
  replica,    \* the read replica: some earlier state of the primary
  nextId,     \* next value of the tweets id sequence
  cache,      \* Redis: key -> [val, exp, snap, by, over]: the value, its expiry time,
              \* the Store state it was read from, the request that wrote it, and
              \* whether that write replaced a value
  events,     \* messages published to Kafka and not yet consumed
  consumer,   \* the consumer's position in the message it is handling, and the
              \* number of errors its loop has logged
  now,        \* wall clock, seconds
  reqs,       \* per request slot: the handler's position and locals
  resp,       \* the most recent HTTP response, with what the request observed
  followAcked, \* users whose follow or unfollow has been answered with success
              \* and who have not called the timeline since
  delivered,  \* tweets whose tweet.created message has reached the consumer
  postedAt,   \* when each committed tweet was committed, by whom, and who followed its
              \* author then
  env,        \* what the surroundings may do in this behaviour: the outcomes of
              \* Store reads (reads), of transaction statements (txOk), of Redis
              \* calls (cacheOk) and of publishes (pubs); it never changes
  io,         \* socket.io: the rooms each user's socket has joined (rooms) and the
              \* tweet-created messages each socket has been sent (sent)
  primaryPool        \* primaryPool as db.transaction uses it: the clients checked out (out)
              \* and, per call of the helper, its position and what it has done

vars == <<primary, replica, nextId, cache, events, consumer, now, reqs, resp, followAcked,
          delivered, postedAt, env, io, primaryPool>>

\* A call of db.transaction that has not started.
NoCall == [pc |-> "idle", client |-> FALSE, held |-> FALSE, releases |-> 0, rollbacks |-> 0,
           committed |-> FALSE, err |-> "none"]

\* No client is checked out and no call of db.transaction is running.
NoCalls == [out |-> 0, calls |-> [c \in Calls |-> NoCall]]

\* No socket has joined a room, nothing has been emitted.
NoSockets == [rooms |-> {}, sent |-> {}]

Idle == [kind |-> "none", pc |-> "idle", user |-> 0, arg |-> NoArg, limit |-> 0, offset |-> 0,
         page |-> <<>>, out |-> <<>>, hit |-> FALSE, cacheErr |-> FALSE, primFail |-> FALSE,
         writes |-> <<>>, committed |-> FALSE, invalidated |-> FALSE, keys |-> {}, snap |-> EmptyStore, pre |-> {},
         dirty |-> FALSE, afterFollow |-> FALSE, t0 |-> 0, pubErr |-> FALSE, tid |-> 0,
         faithful |-> TRUE, liked |-> <<>>, own |-> {}, gone |-> {}]

Done == [Idle EXCEPT !.pc = "done"]

NoResp == [n |-> 0, kind |-> "none", tid |-> 0, txFailed |-> FALSE, nwrites |-> 0, user |-> 0, arg |-> NoArg, limit |-> 0, offset |-> 0,
           status |-> 0, err |-> "none", out |-> <<>>, page |-> <<>>, hit |-> FALSE,
           cacheErr |-> FALSE, primFail |-> FALSE, pubErr |-> FALSE, committed |-> FALSE,
           invalidated |-> FALSE, dirty |-> FALSE, afterFollow |-> FALSE, t0 |-> 0,
           expect |-> <<>>, live |-> TRUE, faithful |-> TRUE, sawFollow |-> TRUE, left |-> {},
           keys |-> {}, pre |-> {}, liked |-> <<>>, own |-> {}, gone |-> {}]

\* Every outcome the surroundings can produce.
AnyEnv == [reads |-> {"replica", "primary", "fail"}, txOk |-> BOOLEAN,
           cacheOk |-> BOOLEAN, pubs |-> {"json", "avro", "fail"}, slots |-> MaxReqs]

\* The state after start-up, Redis apart: empty tables, no request yet.
BootStore ==
  /\ primary = EmptyStore
  /\ replica = EmptyStore
  /\ nextId = 1
  /\ events = {}
  /\ consumer = [pc |-> "poll", keys |-> {}, errors |-> 0]
  /\ now = 0
  /\ reqs = [r \in Reqs |-> Idle]
  /\ resp = NoResp
  /\ followAcked = {}
  /\ delivered = {}
  /\ postedAt = <<>>
  /\ io = NoSockets
  /\ primaryPool = NoCalls

\* The state after start-up with an empty Redis.
Boot == BootStore /\ cache = <<>>

\* ------------------------------------------------------------ cacheHelper
\* redisClient.get: the value under the key, absent once its TTL has run out.
CacheGet(c, key) ==
  IF key \in DOMAIN c THEN [found |-> TRUE, val |-> c[key].val, snap |-> c[key].snap]
  ELSE [found |-> FALSE, val |-> <<>>, snap |-> EmptyStore]

\* redisClient.setex(key, ttl, JSON.stringify(value))
CacheSet(c, key, val, snap, by, ttl) ==
  [k \in DOMAIN c \cup {key} |->
     IF k = key THEN [val |-> val, exp |-> now + ttl, snap |-> snap, by |-> by,
                      over |-> (key \in DOMAIN c)]
     ELSE c[k]]

\* redisClient.keys(pattern)
CacheKeys(c, pattern) == {k \in DOMAIN c : GlobMatch(pattern, k)}

DelOneOf(c, ks) ==
  IF ks = {} THEN c
  ELSE LET one == CHOOSE k \in ks : TRUE IN [k \in DOMAIN c \ {one} |-> c[k]]

\* redisClient.del(...keys)
CacheDel(c, ks) == [k \in DOMAIN c \ ks |-> c[k]]

DelNothing(c, key) == c

\* cacheHelper.del(key) with Redis answering.
Del(c, key) == CacheDel(c, {key})

\* cacheHelper.delPattern(pattern) with Redis answering: keys, then del when
\* there is a match.
DelPattern(c, pattern) ==
  LET keys == CacheKeys(c, pattern)
  IN IF keys # {} THEN CacheDel(c, keys) ELSE c

ExpireNever(c, t) == c

\* Redis drops a key when its TTL has run out.
Expire(c, t) == [k \in {x \in DOMAIN c : c[x].exp > t} |-> c[k]]

\* ------------------------------------------------------- request plumbing
\* The users who follow author a.
Followers(s, a) == {f \in Users : <<f, a>> \in s.follows}

InFlight(q) == q.pc \notin {"idle", "done"}

\* A commit on the primary happened while these timeline reads were running.
MarkDirty(rs) ==
  [r \in Reqs |-> IF rs[r].kind = "timeline" /\ InFlight(rs[r])
                  THEN [rs[r] EXCEPT !.dirty = TRUE] ELSE rs[r]]

\* What the overlay of the timeline route reports for one entry.
LiveEntry(s, v, e) ==
  /\ e.id \in DOMAIN s.tweets
  /\ e.like_count = s.tweets[e.id].like_count
  /\ e.retweet_count = s.tweets[e.id].retweet_count
  /\ e.reply_count = s.tweets[e.id].reply_count
  /\ e.isLiked = (<<v, e.id>> \in s.likes)
  /\ e.isRetweeted = (<<v, e.id>> \in s.retweets)

\* The entries now cached under the keys ks, each with the request that wrote it.
Cached(ks) == {<<k, cache[k].by>> : k \in ks \cap DOMAIN cache}

\* The tweets whose like by v has been answered (the row is committed and no
\* like request of v for the tweet is still running), with their like_count.
LikedBy(v) ==
  LET done == {t \in DOMAIN primary.tweets :
                 /\ <<v, t>> \in primary.likes
                 /\ ~\E x \in Reqs : /\ InFlight(reqs[x]) /\ reqs[x].kind = "like"
                                     /\ reqs[x].user = v /\ reqs[x].arg = t}
  IN [t \in done |-> primary.tweets[t].like_count]

\* The tweets of v whose create-tweet request has been answered: the row is
\* committed and the request that inserted it is over.
PostedBy(v) ==
  {t \in DOMAIN primary.tweets :
     /\ primary.tweets[t].user_id = v
     /\ ~\E x \in Reqs : InFlight(reqs[x]) /\ reqs[x].kind = "create" /\ reqs[x].tid = t}

\* The tweets of v whose delete request has been answered.
DeletedBy(v) ==
  {t \in DOMAIN postedAt :
     /\ postedAt[t].author = v
     /\ t \notin DOMAIN primary.tweets
     /\ ~\E x \in Reqs : InFlight(reqs[x]) /\ reqs[x].kind = "delete" /\ reqs[x].arg = t}

\* Errors raised inside db.transaction: a thrown {statusCode}, a constraint
\* violation (err.code), a failed statement or COMMIT.
TxErrors == {"already", "notfound", "unique", "fk", "tx"}

\* The response record: what was sent, and how it compares with the primary
\* and the cache at the moment it is sent.
MkResp(q, status, err) ==
  [n |-> resp.n + 1, kind |-> q.kind, tid |-> q.tid,
   txFailed |-> (err \in TxErrors), nwrites |-> Len(q.writes),
   user |-> q.user, arg |-> q.arg, limit |-> q.limit, offset |-> q.offset,
   status |-> status, err |-> err, out |-> q.out, page |-> Ids(q.page), hit |-> q.hit,
   cacheErr |-> q.cacheErr, primFail |-> q.primFail, pubErr |-> q.pubErr,
   committed |-> q.committed, invalidated |-> q.invalidated,
   dirty |-> q.dirty, afterFollow |-> q.afterFollow, t0 |-> q.t0,
   expect |-> IF q.kind = "timeline" THEN FanOutIds(primary, q.user, q.limit, q.offset) ELSE <<>>,
   live |-> \A i \in 1..Len(q.out) : LiveEntry(primary, q.user, q.out[i]),
   faithful |-> q.faithful,
   sawFollow |-> (q.kind = "timeline" => q.snap.follows = primary.follows),
   left |-> {p \in q.pre : p[1] \in DOMAIN cache' /\ cache'[p[1]].by = p[2]},
   keys |-> q.keys, pre |-> q.pre, liked |-> q.liked, own |-> q.own, gone |-> q.gone]

\* followAcked after request r has moved: a successful follow or unfollow adds
\* its user, the user's next timeline call takes the user out again.
Acked(r, q, status) ==
  IF reqs[r].pc = "idle" /\ q.kind = "timeline" THEN followAcked \ {q.user}
  ELSE IF q.kind \in {"follow", "unfollow"} /\ status = 200 THEN followAcked \cup {q.user}
  ELSE followAcked

StepOn(rs, r, q) ==
  /\ reqs' = [rs EXCEPT ![r] = q]
  /\ followAcked' = Acked(r, q, 0)
  /\ UNCHANGED resp

RespondOn(rs, r, q, status, err) ==
  /\ reqs' = [rs EXCEPT ![r] = Done]
  /\ resp' = MkResp(q, status, err)
  /\ followAcked' = Acked(r, q, status)

Step(r, q) == StepOn(reqs, r, q)

Respond(r, q, status, err) == RespondOn(reqs, r, q, status, err)

\* Slots are taken in order, so that a behaviour issues at most env.slots requests.
CanStart(r) ==
  /\ r <= env.slots
  /\ reqs[r].pc = "idle"
  /\ \A x \in Reqs : x < r => reqs[x].pc # "idle"

\* db.query(text, params, options) with the replica and the primary up or not:
\* the instances it tried, in order, the one that answered, and whether one did.
Query(write, transaction, replicaUp, primaryUp) ==
  LET pool == IF write \/ transaction THEN "primary" ELSE "replica"
      up == IF pool = "replica" THEN replicaUp ELSE primaryUp
  IN IF up THEN [ok |-> TRUE, src |-> pool, tried |-> <<pool>>]
     ELSE IF ~write /\ ~transaction /\ pool = "replica"
          THEN [ok |-> primaryUp, src |-> "primary", tried |-> <<"replica", "primary">>]
          ELSE [ok |-> FALSE, src |-> pool, tried |-> <<pool>>]

\* A read ({write: false}) under one outcome of the environment: "replica" has
\* the replica answer, "primary" has it fail and the primary answer the retry,
\* "fail" has both fail.
ReadQuery(src) == Query(FALSE, FALSE, src = "replica", src # "fail")

\* The Store state a successful read sees.
ReadFrom(src) == IF ReadQuery(src).src = "replica" THEN replica ELSE primary

\* ------------------------------------------- GET /api/timeline (getOrSet)
\* The page is known: overlay its entries, or answer at once when it is empty.
Proceed(r, q) ==
  IF q.page = <<>> THEN Respond(r, q, 200, "none") ELSE Step(r, [q EXCEPT !.pc = "overlay"])

\* The route up to cacheHelper.get inside getOrSet: a hit returns the cached
\* page, a miss or a Redis error (caught, null) goes on to the fetch function.
StartTimeline(r, v, limit, offset) ==
  LET q == [Idle EXCEPT !.kind = "timeline", !.pc = "fetch", !.user = v,
                        !.limit = limit, !.offset = offset,
                        !.afterFollow = (v \in followAcked), !.t0 = now,
                        !.liked = LikedBy(v), !.own = PostedBy(v), !.gone = DeletedBy(v)]
      got == CacheGet(cache, TimelineKey(v, limit, offset))
  IN /\ CanStart(r)
     /\ UNCHANGED <<primary, replica, nextId, cache, events, consumer, now, delivered, postedAt, env, io, primaryPool>>
     /\ \E ok \in env.cacheOk :
          IF ~ok THEN Step(r, [q EXCEPT !.cacheErr = TRUE])
          ELSE IF got.found
               THEN Proceed(r, [q EXCEPT !.hit = TRUE, !.page = got.val, !.snap = got.snap,
                                         !.faithful = (Ids(got.val) = FanOutIds(got.snap, v, limit, offset))])
               ELSE Step(r, q)

\* fetchFunction: the fan-out query through db.query. When replica and primary
\* both fail, the catch block of getOrSet runs the fetch function again.
TlFetch(r) ==
  LET q == reqs[r]
  IN /\ q.kind = "timeline" /\ q.pc = "fetch"
     /\ UNCHANGED <<primary, replica, nextId, cache, events, consumer, now, delivered, postedAt, env, io, primaryPool>>
     /\ \E src \in env.reads :
          IF ~ReadQuery(src).ok THEN Step(r, [q EXCEPT !.pc = "refetch", !.primFail = TRUE])
          ELSE Step(r, [q EXCEPT !.pc = "set", !.snap = ReadFrom(src),
                                 !.page = FanOut(ReadFrom(src), q.user, q.limit, q.offset)])

\* cacheHelper.set(key, data, 60): a Redis error is caught and the page is not stored.
TlSet(r) ==
  LET q == reqs[r]
  IN /\ q.kind = "timeline" /\ q.pc = "set"
     /\ UNCHANGED <<primary, replica, nextId, events, consumer, now, delivered, postedAt, env, io, primaryPool>>
     /\ \E ok \in env.cacheOk :
          IF ok
          THEN /\ cache' = CacheSet(cache, TimelineKey(q.user, q.limit, q.offset),
                                    q.page, q.snap, r, TimelineTTL)
               /\ Proceed(r, q)
          ELSE /\ cache' = cache
               /\ Proceed(r, [q EXCEPT !.cacheErr = TRUE])

\* The second run of the fetch function, from the catch block of getOrSet: its
\* result is returned without being cached, its error reaches the route's catch.
TlRefetch(r) ==
  LET q == reqs[r]
  IN /\ q.kind = "timeline" /\ q.pc = "refetch"
     /\ UNCHANGED <<primary, replica, nextId, cache, events, consumer, now, delivered, postedAt, env, io, primaryPool>>
     /\ \E src \in env.reads :
          IF ~ReadQuery(src).ok THEN Respond(r, q, 500, "store")
          ELSE Proceed(r, [q EXCEPT !.snap = ReadFrom(src),
                                    !.page = FanOut(ReadFrom(src), q.user, q.limit, q.offset)])

\* freshCounts.x ?? tweet.x
Coalesce(s, t, field, cached) == IF t \in DOMAIN s.tweets THEN s.tweets[t][field] ELSE cached

\* The three overlay queries of one entry, each answered by its own source.
Overlay(v, t, sl, sr, sc) ==
  [id |-> t.id,
   like_count |-> Coalesce(sc, t.id, "like_count", t.like_count),
   retweet_count |-> Coalesce(sc, t.id, "retweet_count", t.retweet_count),
   reply_count |-> Coalesce(sc, t.id, "reply_count", t.reply_count),
   isLiked |-> (<<v, t.id>> \in sl.likes),
   isRetweeted |-> (<<v, t.id>> \in sr.retweets)]

\* tweetsWithStatus: the next entry of the page gets its flags and counts; the
\* response is sent after the last one. A query that fails on both instances
\* fails the request.
TlOverlay(r) ==
  LET q == reqs[r]
      t == q.page[Len(q.out) + 1]
  IN /\ q.kind = "timeline" /\ q.pc = "overlay"
     /\ UNCHANGED <<primary, replica, nextId, cache, events, consumer, now, delivered, postedAt, env, io, primaryPool>>
     /\ \/ \E sl, sr, sc \in {x \in env.reads : ReadQuery(x).ok} :
             LET q2 == [q EXCEPT !.out = Append(@, Overlay(q.user, t, ReadFrom(sl),
                                                          ReadFrom(sr), ReadFrom(sc)))]
             IN IF Len(q2.out) = Len(q.page) THEN Respond(r, q2, 200, "none") ELSE Step(r, q2)
        \/ /\ \E x \in env.reads : ~ReadQuery(x).ok
           /\ Respond(r, [q EXCEPT !.primFail = TRUE], 500, "store")

\* ---------------------------------------------------------- error handlers
InternalError(err) == 500

\* errorHandler middleware of the main backend (follows, timeline routes).
ErrorHandler(err) ==
  CASE err = "unique" -> 409
    [] err = "fk" -> 400
    [] err = "already" -> 400
    [] err = "notfound" -> 404
    [] OTHER -> 500

\* The feed-service's own handler answers every error alike.
FeedErrorHandler(err) == 500

\* The routes of the feed-service.
FeedKinds == {"create", "detail", "like", "unlike", "delete", "retweet", "unretweet"}

HandlerStatus(kind, err) ==
  IF kind \in FeedKinds THEN FeedErrorHandler(err) ELSE ErrorHandler(err)

\* app.get('io') in the feed-service, whose server never sets it.
IoAttached == FALSE

\* ---------------------------------------------------------- db.transaction
TransactionNoRollback(s, writes, ok) == ApplyAll(s, writes)

\* COMMIT makes the statements of the transaction visible together; ROLLBACK
\* (the catch block) discards them.
TransactionResult(s, writes, ok) == IF ok THEN ApplyAll(s, writes) ELSE s

\* ---- the helper itself, one step per await
\* Call c moves to record k; the number of checked-out clients becomes n.
PoolStep(c, k, n) ==
  /\ primaryPool' = [out |-> n, calls |-> [primaryPool.calls EXCEPT ![c] = k]]
  /\ UNCHANGED <<primary, replica, nextId, cache, events, consumer, now, reqs, resp,
                 followAcked, delivered, postedAt, env, io>>

\* await primaryPool.connect(): a client is checked out, or the call throws
\* before the try block (no client free within connectionTimeoutMillis).
TxConnect(c) ==
  LET k == primaryPool.calls[c]
  IN /\ k.pc = "idle"
     /\ \A x \in Calls : x < c => primaryPool.calls[x].pc # "idle"
     /\ \E ok \in env.txOk :
          IF ok /\ primaryPool.out < PoolMax
          THEN PoolStep(c, [k EXCEPT !.pc = "begin", !.client = TRUE, !.held = TRUE], primaryPool.out + 1)
          ELSE PoolStep(c, [k EXCEPT !.pc = "threw", !.err = "connect"], primaryPool.out)

\* await client.query('BEGIN'), await callback(client), await client.query('COMMIT'):
\* each goes on to the next, or throws into the catch block.
TxBegin(c) ==
  LET k == primaryPool.calls[c]
  IN /\ k.pc = "begin"
     /\ \E ok \in env.txOk :
          IF ok THEN PoolStep(c, [k EXCEPT !.pc = "callback"], primaryPool.out)
          ELSE PoolStep(c, [k EXCEPT !.pc = "rollback", !.err = "begin"], primaryPool.out)

TxCallback(c) ==
  LET k == primaryPool.calls[c]
  IN /\ k.pc = "callback"
     /\ \E ok \in env.txOk :
          IF ok THEN PoolStep(c, [k EXCEPT !.pc = "commit"], primaryPool.out)
          ELSE PoolStep(c, [k EXCEPT !.pc = "rollback", !.err = "callback"], primaryPool.out)

TxCommit(c) ==
  LET k == primaryPool.calls[c]
  IN /\ k.pc = "commit"
     /\ \E ok \in env.txOk :
          IF ok THEN PoolStep(c, [k EXCEPT !.pc = "finally", !.committed = TRUE], primaryPool.out)
          ELSE PoolStep(c, [k EXCEPT !.pc = "rollback", !.err = "commit"], primaryPool.out)

\* catch: await client.query('ROLLBACK'); then the error is logged and rethrown.
\* A ROLLBACK that fails throws its own error out of the catch block.
TxRollback(c) ==
  LET k == primaryPool.calls[c]
  IN /\ k.pc = "rollback"
     /\ \E ok \in env.txOk :
          IF ok THEN PoolStep(c, [k EXCEPT !.pc = "finally", !.rollbacks = @ + 1], primaryPool.out)
          ELSE PoolStep(c, [k EXCEPT !.pc = "finally", !.rollbacks = @ + 1, !.err = "rollback"],
                        primaryPool.out)

ReleaseOnReturn(k) ==
  IF k.err = "none" THEN [k EXCEPT !.held = FALSE, !.releases = @ + 1] ELSE k

\* finally: client.release().
Release(k) == [k EXCEPT !.held = FALSE, !.releases = @ + 1]

\* The finally block, then the return of the result or the throw of the error.
TxFinally(c) ==
  LET k == Release(primaryPool.calls[c])
  IN /\ primaryPool.calls[c].pc = "finally"
     /\ PoolStep(c, [k EXCEPT !.pc = IF k.err = "none" THEN "returned" ELSE "threw"],
                 IF k.held THEN primaryPool.out ELSE primaryPool.out - 1)

\* The callback or a statement threw: ROLLBACK, release, rethrow to the route.
TxFail(r, q, err) ==
  /\ primary' = TransactionResult(primary, q.writes, FALSE)
  /\ Respond(r, q, HandlerStatus(q.kind, err), err)

\* A row some other open transaction has inserted and not yet committed: an
\* INSERT of the same unique key waits for that transaction to end.
PendingElsewhere(r, op) ==
  \E x \in Reqs \ {r} : InFlight(reqs[x]) /\ ~reqs[x].committed
                        /\ \E i \in 1..Len(reqs[x].writes) : reqs[x].writes[i] = op

Op(name, a, b, c) == [op |-> name, a |-> a, b |-> b, c |-> c]

\* --------------------------------------------- POST /api/follows/:userId
\* Self-follow check, BEGIN, and the two SELECTs of the callback.
StartFollow(r, v, g) ==
  LET q == [Idle EXCEPT !.kind = "follow", !.pc = "insert", !.user = v, !.arg = g, !.t0 = now,
              !.pre = {<<k, cache[k].by>> : k \in CacheKeys(cache, TimelinePattern(v))
                                                  \cup CacheKeys(cache, TimelinePattern(g))}]
  IN /\ CanStart(r)
     /\ UNCHANGED <<replica, nextId, cache, events, consumer, now, delivered, postedAt, env, io, primaryPool>>
     /\ IF g = v THEN primary' = primary /\ Respond(r, q, 400, "self")
        ELSE \E ok \in env.txOk :
               IF ~ok THEN TxFail(r, q, "tx")
               ELSE IF <<v, g>> \in primary.follows THEN TxFail(r, q, "already")
               ELSE IF g \notin Users THEN TxFail(r, q, "notfound")
               ELSE primary' = primary /\ Step(r, q)

NoUniqueConstraint(rows, key) == FALSE

\* UNIQUE(follower_id, following_id) on follows, UNIQUE(user_id, tweet_id) on
\* likes and retweets: an INSERT of a pair that has a committed row raises 23505.
UniqueViolation(rows, key) == key \in rows

\* INSERT INTO follows: UNIQUE(follower_id, following_id) decides against the
\* committed rows once no other transaction holds the same key open.
FollowInsert(r) ==
  LET q == reqs[r]
      op == Op("ins_follow", q.user, q.arg, NoArg)
  IN /\ q.kind = "follow" /\ q.pc = "insert"
     /\ ~PendingElsewhere(r, op)
     /\ UNCHANGED <<replica, nextId, cache, events, consumer, now, delivered, postedAt, env, io, primaryPool>>
     /\ \E ok \in env.txOk :
          IF ~ok THEN TxFail(r, q, "tx")
          ELSE IF UniqueViolation(primary.follows, <<q.user, q.arg>>) THEN TxFail(r, q, "unique")
          ELSE primary' = primary /\ Step(r, [q EXCEPT !.pc = "commit", !.writes = <<op>>])

\* -------------------------------------------- DELETE /api/follows/:userId
\* One DELETE ... RETURNING through db.query with write: true: no retry.
StartUnfollow(r, v, g) ==
  LET q == [Idle EXCEPT !.kind = "unfollow", !.pc = "keys", !.user = v, !.arg = g, !.t0 = now,
              !.pre = {<<k, cache[k].by>> : k \in CacheKeys(cache, TimelinePattern(v))
                                                  \cup CacheKeys(cache, TimelinePattern(g))}]
  IN /\ CanStart(r)
     /\ UNCHANGED <<replica, nextId, cache, events, consumer, now, delivered, postedAt, env, io, primaryPool>>
     /\ \E ok \in env.txOk :
          IF ~Query(TRUE, FALSE, TRUE, ok).ok
          THEN primary' = primary /\ Respond(r, q, ErrorHandler("store"), "store")
          ELSE IF <<v, g>> \notin primary.follows
               THEN primary' = primary /\ Respond(r, q, 404, "norow")
               ELSE /\ primary' = ApplyOp(primary, Op("del_follow", v, g, NoArg))
                    /\ StepOn(MarkDirty(reqs), r, [q EXCEPT !.committed = TRUE])

\* ------------------------------------------------- POST /tweets (feed-service)
\* BEGIN and INSERT INTO tweets: the id sequence advances whatever happens to
\* the transaction; reply_to_tweet_id must reference a committed tweet.
StartCreate(r, v, replyTo) ==
  LET op == Op("ins_tweet", nextId, v, replyTo)
      q == [Idle EXCEPT !.kind = "create", !.user = v, !.arg = replyTo, !.t0 = now,
                        !.tid = nextId, !.pc = IF replyTo = NoArg THEN "commit" ELSE "update"]
  IN /\ CanStart(r)
     /\ nextId <= MaxTweets
     /\ UNCHANGED <<replica, cache, events, consumer, now, delivered, postedAt, env, io, primaryPool>>
     /\ \E ok \in env.txOk :
          IF ~ok THEN nextId' = nextId /\ TxFail(r, q, "tx")
          ELSE /\ nextId' = nextId + 1
               /\ IF replyTo # NoArg /\ replyTo \notin DOMAIN primary.tweets
                  THEN TxFail(r, q, "fk")
                  ELSE primary' = primary /\ Step(r, [q EXCEPT !.writes = <<op>>])

\* UPDATE tweets SET reply_count = reply_count + 1 on the parent.
CreateUpdate(r) ==
  LET q == reqs[r]
  IN /\ q.kind = "create" /\ q.pc = "update"
     /\ UNCHANGED <<replica, nextId, cache, events, consumer, now, delivered, postedAt, env, io, primaryPool>>
     /\ \E ok \in env.txOk :
          IF ~ok THEN TxFail(r, q, "tx")
          ELSE /\ primary' = primary
               /\ Step(r, [q EXCEPT !.pc = "commit",
                                    !.writes = Append(@, Op("inc_reply", q.arg, NoArg, NoArg))])

\* ---------------------------------------- POST /tweets/:id/like (feed-service)
\* BEGIN and the SELECT that looks for an existing like.
StartLike(r, v, t) ==
  LET q == [Idle EXCEPT !.kind = "like", !.pc = "insert", !.user = v, !.arg = t, !.t0 = now,
                        !.pre = Cached({TweetKey(t)})]
  IN /\ CanStart(r)
     /\ UNCHANGED <<replica, nextId, cache, events, consumer, now, delivered, postedAt, env, io, primaryPool>>
     /\ \E ok \in env.txOk :
          IF ~ok THEN TxFail(r, q, "tx")
          ELSE IF <<v, t>> \in primary.likes THEN TxFail(r, q, "already")
          ELSE primary' = primary /\ Step(r, q)

\* INSERT INTO likes: the tweet must exist, UNIQUE(user_id, tweet_id).
LikeInsert(r) ==
  LET q == reqs[r]
      op == Op("ins_like", q.user, q.arg, NoArg)
  IN /\ q.kind = "like" /\ q.pc = "insert"
     /\ ~PendingElsewhere(r, op)
     /\ UNCHANGED <<replica, nextId, cache, events, consumer, now, delivered, postedAt, env, io, primaryPool>>
     /\ \E ok \in env.txOk :
          IF ~ok THEN TxFail(r, q, "tx")
          ELSE IF q.arg \notin DOMAIN primary.tweets THEN TxFail(r, q, "fk")
          ELSE IF UniqueViolation(primary.likes, <<q.user, q.arg>>) THEN TxFail(r, q, "unique")
          ELSE primary' = primary /\ Step(r, [q EXCEPT !.pc = "commit", !.writes = <<op>>])

\* -------------------------------------------- GET /tweets/:id (feed-service)
\* cacheHelper.get(`tweet:${id}`): a hit is sent as it is; a miss or a Redis
\* error (null) goes on to the Store.
StartDetail(r, v, t) ==
  LET q == [Idle EXCEPT !.kind = "detail", !.pc = "fetch", !.user = v, !.arg = t, !.t0 = now]
      got == CacheGet(cache, TweetKey(t))
  IN /\ CanStart(r)
     /\ UNCHANGED <<primary, replica, nextId, cache, events, consumer, now, delivered, postedAt, env, io, primaryPool>>
     /\ \E ok \in env.cacheOk :
          IF ~ok THEN Step(r, [q EXCEPT !.cacheErr = TRUE])
          ELSE IF got.found
               THEN Respond(r, [q EXCEPT !.hit = TRUE, !.page = got.val, !.snap = got.snap],
                            200, "none")
               ELSE Step(r, q)

\* optionalAuth: a request without a token has no req.user.
Anonymous == 0

\* The row of the tweet; an authenticated viewer's isLiked is added to it.
DetailRow(st, sl, v, t) ==
  LET tweet == [id |-> t, user_id |-> st.tweets[t].user_id, reply_to |-> st.tweets[t].reply_to,
                like_count |-> st.tweets[t].like_count,
                retweet_count |-> st.tweets[t].retweet_count,
                reply_count |-> st.tweets[t].reply_count]
  IN IF v # Anonymous THEN [isLiked |-> (<<v, t>> \in sl.likes)] @@ tweet ELSE tweet

\* The SELECT of the tweet and the SELECT on likes, both {write: false}.
DetailFetch(r) ==
  LET q == reqs[r]
  IN /\ q.kind = "detail" /\ q.pc = "fetch"
     /\ UNCHANGED <<primary, replica, nextId, cache, events, consumer, now, delivered, postedAt, env, io, primaryPool>>
     /\ \E st, sl \in env.reads :
          IF ~ReadQuery(st).ok
          THEN Respond(r, [q EXCEPT !.primFail = TRUE], FeedErrorHandler("store"), "store")
          ELSE IF q.arg \notin DOMAIN ReadFrom(st).tweets THEN Respond(r, q, 404, "norow")
          ELSE IF q.user # Anonymous /\ ~ReadQuery(sl).ok
          THEN Respond(r, [q EXCEPT !.primFail = TRUE], FeedErrorHandler("store"), "store")
          ELSE Step(r, [q EXCEPT !.pc = "set", !.snap = ReadFrom(st),
                                 !.page = <<DetailRow(ReadFrom(st), ReadFrom(sl), q.user, q.arg)>>])

\* cacheHelper.set(cacheKey, tweet, 300), then res.json(tweet).
DetailSet(r) ==
  LET q == reqs[r]
  IN /\ q.kind = "detail" /\ q.pc = "set"
     /\ UNCHANGED <<primary, replica, nextId, events, consumer, now, delivered, postedAt, env, io, primaryPool>>
     /\ \E ok \in env.cacheOk :
          IF ok
          THEN /\ cache' = CacheSet(cache, TweetKey(q.arg), q.page, q.snap, r, TweetTTL)
               /\ Respond(r, q, 200, "none")
          ELSE /\ cache' = cache
               /\ Respond(r, [q EXCEPT !.cacheErr = TRUE], 200, "none")

\* ------------------------------------ DELETE /tweets/:id/like (feed-service)
\* One DELETE ... RETURNING with write: true; no transaction, no publish.
StartUnlike(r, v, t) ==
  LET q == [Idle EXCEPT !.kind = "unlike", !.pc = "del", !.user = v, !.arg = t, !.t0 = now,
                        !.pre = Cached({TweetKey(t)})]
  IN /\ CanStart(r)
     /\ UNCHANGED <<replica, nextId, cache, events, consumer, now, delivered, postedAt, env, io, primaryPool>>
     /\ \E ok \in env.txOk :
          IF ~Query(TRUE, FALSE, TRUE, ok).ok
          THEN primary' = primary /\ Respond(r, q, FeedErrorHandler("store"), "store")
          ELSE IF <<v, t>> \notin primary.likes
               THEN primary' = primary /\ Respond(r, q, 404, "norow")
               ELSE /\ primary' = ApplyOp(primary, Op("del_like", v, t, NoArg))
                    /\ StepOn(MarkDirty(reqs), r, [q EXCEPT !.committed = TRUE])

\* ------------------------------------ POST /tweets/:id/retweet (feed-service)
\* BEGIN and the SELECT that looks for an existing retweet.
StartRetweet(r, v, t) ==
  LET q == [Idle EXCEPT !.kind = "retweet", !.pc = "insert", !.user = v, !.arg = t, !.t0 = now,
                        !.pre = Cached({TweetKey(t)})]
  IN /\ CanStart(r)
     /\ UNCHANGED <<replica, nextId, cache, events, consumer, now, delivered, postedAt, env, io, primaryPool>>
     /\ \E ok \in env.txOk :
          IF ~ok THEN TxFail(r, q, "tx")
          ELSE IF <<v, t>> \in primary.retweets THEN TxFail(r, q, "already")
          ELSE primary' = primary /\ Step(r, q)

\* INSERT INTO retweets: the tweet must exist, UNIQUE(user_id, tweet_id).
RetweetInsert(r) ==
  LET q == reqs[r]
      op == Op("ins_retweet", q.user, q.arg, NoArg)
  IN /\ q.kind = "retweet" /\ q.pc = "insert"
     /\ ~PendingElsewhere(r, op)
     /\ UNCHANGED <<replica, nextId, cache, events, consumer, now, delivered, postedAt, env, io, primaryPool>>
     /\ \E ok \in env.txOk :
          IF ~ok THEN TxFail(r, q, "tx")
          ELSE IF q.arg \notin DOMAIN primary.tweets THEN TxFail(r, q, "fk")
          ELSE IF UniqueViolation(primary.retweets, <<q.user, q.arg>>) THEN TxFail(r, q, "unique")
          ELSE primary' = primary /\ Step(r, [q EXCEPT !.pc = "update", !.writes = <<op>>])

\* UPDATE tweets SET retweet_count = retweet_count + 1.
RetweetUpdate(r) ==
  LET q == reqs[r]
  IN /\ q.kind = "retweet" /\ q.pc = "update"
     /\ UNCHANGED <<replica, nextId, cache, events, consumer, now, delivered, postedAt, env, io, primaryPool>>
     /\ \E ok \in env.txOk :
          IF ~ok THEN TxFail(r, q, "tx")
          ELSE /\ primary' = primary
               /\ Step(r, [q EXCEPT !.pc = "commit",
                                    !.writes = Append(@, Op("inc_retweet", q.arg, NoArg, NoArg))])

\* ---------------------------------- DELETE /tweets/:id/retweet (feed-service)
\* BEGIN and DELETE FROM retweets ... RETURNING id: no row is a thrown 404.
StartUnretweet(r, v, t) ==
  LET op == Op("del_retweet", v, t, NoArg)
      q == [Idle EXCEPT !.kind = "unretweet", !.pc = "update", !.user = v, !.arg = t,
                        !.t0 = now, !.pre = Cached({TweetKey(t)})]
  IN /\ CanStart(r)
     /\ ~PendingElsewhere(r, op)
     /\ UNCHANGED <<replica, nextId, cache, events, consumer, now, delivered, postedAt, env, io, primaryPool>>
     /\ \E ok \in env.txOk :
          IF ~ok THEN TxFail(r, q, "tx")
          ELSE IF <<v, t>> \notin primary.retweets THEN TxFail(r, q, "notfound")
          ELSE primary' = primary /\ Step(r, [q EXCEPT !.writes = <<op>>])

\* UPDATE tweets SET retweet_count = retweet_count - 1 ... AND retweet_count > 0.
UnretweetUpdate(r) ==
  LET q == reqs[r]
  IN /\ q.kind = "unretweet" /\ q.pc = "update"
     /\ UNCHANGED <<replica, nextId, cache, events, consumer, now, delivered, postedAt, env, io, primaryPool>>
     /\ \E ok \in env.txOk :
          IF ~ok THEN TxFail(r, q, "tx")
          ELSE /\ primary' = primary
               /\ Step(r, [q EXCEPT !.pc = "commit",
                                    !.writes = Append(@, Op("dec_retweet", q.arg, NoArg, NoArg))])

\* COMMIT of the retweet and unretweet transactions; these routes publish nothing.
CommitQuiet(r) ==
  LET q == reqs[r]
  IN /\ q.kind \in {"retweet", "unretweet"} /\ q.pc = "commit"
     /\ UNCHANGED <<replica, nextId, cache, events, consumer, now, delivered, postedAt, env, io, primaryPool>>
     /\ \/ /\ FALSE \in env.txOk
           /\ TxFail(r, q, "tx")
        \/ /\ primary' = TransactionResult(primary, q.writes, TRUE)
           /\ StepOn(MarkDirty(reqs), r, [q EXCEPT !.pc = "del", !.committed = TRUE])

\* ---------------------------------------- DELETE /tweets/:id (feed-service)
\* DELETE FROM tweets WHERE id = $1 AND user_id = $2 RETURNING id, write: true.
StartDelete(r, v, t) ==
  LET q == [Idle EXCEPT !.kind = "delete", !.pc = "delkey", !.user = v, !.arg = t, !.t0 = now,
                        !.pre = Cached({TweetKey(t)} \cup CacheKeys(cache, TimelinePattern(v)))]
  IN /\ CanStart(r)
     /\ UNCHANGED <<replica, nextId, cache, events, consumer, now, delivered, postedAt, env, io, primaryPool>>
     /\ \E ok \in env.txOk :
          IF ~Query(TRUE, FALSE, TRUE, ok).ok
          THEN primary' = primary /\ Respond(r, q, FeedErrorHandler("store"), "store")
          ELSE IF t \notin DOMAIN primary.tweets \/ primary.tweets[t].user_id # v
               THEN primary' = primary /\ Respond(r, q, 404, "norow")
               ELSE /\ primary' = ApplyOp(primary, Op("del_tweet", t, NoArg, NoArg))
                    /\ StepOn(MarkDirty(reqs), r, [q EXCEPT !.committed = TRUE])

\* cacheHelper.del(`tweet:${id}`) of the delete route; delPattern follows.
DeleteDel(r) ==
  LET q == reqs[r]
  IN /\ q.kind = "delete" /\ q.pc = "delkey"
     /\ UNCHANGED <<primary, replica, nextId, events, consumer, now, delivered, postedAt, env, io, primaryPool>>
     /\ \E ok \in env.cacheOk :
          IF ok THEN cache' = Del(cache, TweetKey(q.arg)) /\ Step(r, [q EXCEPT !.pc = "keys"])
          ELSE cache' = cache /\ Step(r, [q EXCEPT !.pc = "keys", !.cacheErr = TRUE])

\* ------------------------------------------------ COMMIT, then the publish
\* The message a producer puts on the bus: its topic, key and value encoding
\* (JSON.stringify in one producer, Avro through the schema registry in the other).
Message(q, enc) ==
  CASE q.kind = "create" -> [topic |-> "tweets", type |-> "tweet.created", enc |-> enc, key |-> q.tid]
    [] q.kind = "like" -> [topic |-> "tweet-interactions", type |-> "tweet.liked", enc |-> enc, key |-> q.arg]
    [] OTHER -> [topic |-> "user-interactions", type |-> "user.followed", enc |-> enc, key |-> q.user]

\* Every message a producer can put on the bus.
Messages ==
  {[topic |-> "tweets", type |-> "tweet.created", enc |-> enc, key |-> t] :
     enc \in {"json", "avro"}, t \in TweetIds}
  \cup {[topic |-> "tweet-interactions", type |-> "tweet.liked", enc |-> enc, key |-> t] :
           enc \in {"json", "avro"}, t \in TweetIds}
  \cup {[topic |-> "user-interactions", type |-> "user.followed", enc |-> enc, key |-> u] :
           enc \in {"json", "avro"}, u \in Users}

AfterCommit(kind) == IF kind = "like" THEN "del" ELSE "keys"

\* COMMIT of db.transaction, then the try/catch around kafkaProducer.publish*:
\* a failed publish is logged and the handler goes on.
Commit(r) ==
  LET q == reqs[r]
  IN /\ q.kind \in {"follow", "create", "like"} /\ q.pc = "commit"
     /\ UNCHANGED <<replica, nextId, cache, consumer, now, delivered, env, io, primaryPool>>
     /\ \/ /\ FALSE \in env.txOk
           /\ events' = events /\ postedAt' = postedAt /\ TxFail(r, q, "tx")
        \/ /\ primary' = TransactionResult(primary, q.writes, TRUE)
           /\ postedAt' = IF q.kind = "create"
                          THEN (q.tid :> [at |-> now, author |-> q.user,
                                          followers |-> Followers(primary, q.user)])
                                 @@ postedAt
                          ELSE postedAt
           /\ \E pub \in env.pubs :
                /\ events' = IF pub = "fail" THEN events ELSE events \cup {Message(q, pub)}
                /\ StepOn(MarkDirty(reqs), r,
                          [q EXCEPT !.pc = AfterCommit(q.kind), !.committed = TRUE,
                                    !.pubErr = (pub = "fail")])

\* ------------------------------------------------- in-request invalidation
\* The room socket.join(`timeline-${userId}`) and io.to(`timeline-${userId}`) name.
TimelineRoom(u) == <<"timeline", "-">> \o ToStr(u)

\* io.to(room).emit('tweet-created', result): every socket in the room is sent it.
Emit(sockets, room, t) ==
  [sockets EXCEPT !.sent = @ \cup {<<m[1], t>> : m \in {x \in sockets.rooms : x[2] = room}}]

\* socket.on('join-timeline', userId): the socket of user s joins the room of
\* the user id it sent.
JoinTimeline(s, u) ==
  /\ <<s, TimelineRoom(u)>> \notin io.rooms
  /\ io' = [io EXCEPT !.rooms = @ \cup {<<s, TimelineRoom(u)>>}]
  /\ UNCHANGED <<primary, replica, nextId, cache, events, consumer, now, reqs, resp,
                 followAcked, delivered, postedAt, env, primaryPool>>

\* What is left of a write handler once its cache calls are over: the create
\* route goes on to req.app.get('io') and io.to(...).emit(...).
Finish(r, q) ==
  IF q.kind = "create"
  THEN IF IoAttached
       THEN io' = Emit(io, TimelineRoom(q.user), q.tid) /\ Respond(r, q, 201, "none")
       ELSE io' = io /\ Respond(r, q, FeedErrorHandler("io"), "io")
  ELSE io' = io /\ Respond(r, q, 200, "none")

\* delPattern(`timeline:${userId}:*`), first half: redisClient.keys(pattern).
\* (The follow routes first run delPattern on `user:${username}`, a key space
\* the timeline engine never populates.) A Redis error is caught: false.
InvKeys(r) ==
  LET q == reqs[r]
      ks == CacheKeys(cache, TimelinePattern(q.user))
  IN /\ q.kind \in {"follow", "unfollow", "create", "delete"} /\ q.pc = "keys"
     /\ UNCHANGED <<primary, replica, nextId, cache, events, consumer, now, delivered, postedAt, env, primaryPool>>
     /\ \E ok \in env.cacheOk :
          IF ~ok THEN Finish(r, [q EXCEPT !.cacheErr = TRUE])
          ELSE IF ks = {} THEN Finish(r, [q EXCEPT !.invalidated = TRUE])
          ELSE io' = io /\ Step(r, [q EXCEPT !.pc = "del", !.keys = ks])

\* delPattern, second half: redisClient.del(...keys).
InvDel(r) ==
  LET q == reqs[r]
  IN /\ q.kind \in {"follow", "unfollow", "create", "delete"} /\ q.pc = "del"
     /\ UNCHANGED <<primary, replica, nextId, events, consumer, now, delivered, postedAt, env, primaryPool>>
     /\ \E ok \in env.cacheOk :
          IF ok THEN cache' = CacheDel(cache, q.keys) /\ Finish(r, [q EXCEPT !.invalidated = TRUE])
          ELSE cache' = cache /\ Finish(r, [q EXCEPT !.cacheErr = TRUE])

InteractionDelPages(c, user, t) == DelPattern(Del(c, TweetKey(t)), TimelinePattern(user))

\* What the like, unlike, retweet and unretweet routes invalidate:
\* redisClient.helper.del(`tweet:${id}`).
InteractionDel(c, user, t) == Del(c, TweetKey(t))

\* cacheHelper.del(`tweet:${id}`) of the like route.
LikeDel(r) ==
  LET q == reqs[r]
  IN /\ q.kind = "like" /\ q.pc = "del"
     /\ UNCHANGED <<primary, replica, nextId, events, consumer, now, delivered, postedAt, env, primaryPool>>
     /\ \E ok \in env.cacheOk :
          IF ok THEN cache' = InteractionDel(cache, q.user, q.arg)
                     /\ Finish(r, [q EXCEPT !.invalidated = TRUE])
          ELSE cache' = cache /\ Finish(r, [q EXCEPT !.cacheErr = TRUE])

\* cacheHelper.del(`tweet:${id}`) of the unlike, retweet and unretweet routes.
TweetKeyDel(r) ==
  LET q == reqs[r]
  IN /\ q.kind \in {"unlike", "retweet", "unretweet"} /\ q.pc = "del"
     /\ UNCHANGED <<primary, replica, nextId, events, consumer, now, delivered, postedAt, env, primaryPool>>
     /\ \E ok \in env.cacheOk :
          IF ok THEN cache' = InteractionDel(cache, q.user, q.arg)
                     /\ Finish(r, [q EXCEPT !.invalidated = TRUE])
          ELSE cache' = cache /\ Finish(r, [q EXCEPT !.cacheErr = TRUE])

\* ------------------------------------------------------------ the consumer
\* eachMessage: the topic's handler runs inside try/catch. JSON.parse throws on
\* an Avro-encoded value and the message is dropped. For tweet.created the
\* handler refreshes the trending view and, if that worked, runs delPattern on
\* 'timeline:*' (and on 'trending:*', which the timeline engine never populates).
RethrowError(c) == [c EXCEPT !.pc = "crashed", !.errors = @ + 1]

\* The catch block of eachMessage: logger.error, no rethrow; the loop goes on.
CatchError(c) == [c EXCEPT !.errors = @ + 1]

\* JSON.parse(message.value.toString()) throws on a value that is not JSON text,
\* as the Avro producer's registry-framed binary is.
Parses(e) == e.enc = "json"

EachMessage(e) ==
  /\ consumer.pc = "poll"
  /\ e \in events
  /\ events' = events \ {e}
  /\ delivered' = IF e.type = "tweet.created" THEN delivered \cup {e.key} ELSE delivered
  /\ UNCHANGED <<primary, replica, nextId, now, reqs, resp, followAcked, postedAt, env, io, primaryPool>>
  /\ IF ~Parses(e) THEN cache' = cache /\ consumer' = CatchError(consumer)
     ELSE IF e.topic = "tweets"
          THEN /\ cache' = cache
               /\ \E refreshed \in env.txOk, ok \in env.cacheOk :
                    consumer' = IF refreshed /\ ok /\ CacheKeys(cache, AllTimelines) # {}
                                THEN [consumer EXCEPT !.pc = "del",
                                                      !.keys = CacheKeys(cache, AllTimelines)]
                                ELSE consumer
     ELSE IF e.topic = "tweet-interactions"
          THEN /\ consumer' = consumer
               /\ \E ok \in env.cacheOk :
                    cache' = IF ok THEN CacheDel(cache, {TweetKey(e.key)}) ELSE cache
     ELSE UNCHANGED <<cache, consumer>>

\* The consumer's delPattern('timeline:*'), second half.
ConsumerDel ==
  /\ consumer.pc = "del"
  /\ consumer' = [consumer EXCEPT !.pc = "poll", !.keys = {}]
  /\ \E ok \in env.cacheOk : cache' = IF ok THEN CacheDel(cache, consumer.keys) ELSE cache
  /\ UNCHANGED <<primary, replica, nextId, events, now, reqs, resp, followAcked,
                 delivered, postedAt, env, io, primaryPool>>

\* ------------------------------------------------------------ environment
\* Streaming replication catches the replica up with the primary.
Replicate ==
  /\ replica # primary
  /\ replica' = primary
  /\ UNCHANGED <<primary, nextId, cache, events, consumer, now, reqs, resp, followAcked, delivered, postedAt, env, io, primaryPool>>

\* Time passes; Redis drops the keys whose TTL has run out.
Tick ==
  /\ now < MaxTicks * TickLen
  /\ now' = now + TickLen
  /\ cache' = Expire(cache, now')
  /\ UNCHANGED <<primary, replica, nextId, events, consumer, reqs, resp, followAcked, delivered, postedAt, env, io, primaryPool>>


\* --------------------------------------------------------- specifications
\* Reads may see a lagging replica; nothing fails.
LagEnv == [reads |-> {"replica", "primary"}, txOk |-> {TRUE}, cacheOk |-> {TRUE},
           pubs |-> {"fail"}, slots |-> MaxReqs]

Init == Boot /\ env = LagEnv

Next ==
  \/ \E r \in Reqs, v \in Users, l \in Limits, o \in Offsets : StartTimeline(r, v, l, o)
  \/ \E r \in Reqs : TlFetch(r)
  \/ \E r \in Reqs : TlSet(r)
  \/ \E r \in Reqs : TlOverlay(r)
  \/ \E r \in Reqs, v \in Users, g \in UserIds : StartFollow(r, v, g)
  \/ \E r \in Reqs : FollowInsert(r)
  \/ \E r \in Reqs, v \in Users, g \in UserIds : StartUnfollow(r, v, g)
  \/ \E r \in Reqs, v \in Users : StartCreate(r, v, NoArg)
  \/ \E r \in Reqs, v \in Users, t \in TweetIds : StartLike(r, v, t)
  \/ \E r \in Reqs : LikeInsert(r)
  \/ \E r \in Reqs : LikeDel(r)
  \/ \E r \in Reqs : Commit(r)
  \/ \E r \in Reqs : InvKeys(r)
  \/ \E r \in Reqs : InvDel(r)
  \/ Replicate

Spec == Init /\ [][Next]_vars

\* Anything may fail (Redis calls, queries, transactions, publishes); the
\* replica, when it answers, has caught up. User 1 reads, follows and likes,
\* user 11 posts.
Readers == {1}
Authors == {11}

FaultInit == Boot /\ env = [AnyEnv EXCEPT !.reads = {"primary", "fail"}]

FaultNext ==
  \/ \E r \in Reqs, v \in Readers, l \in Limits, o \in Offsets : StartTimeline(r, v, l, o)
  \/ \E r \in Reqs : TlFetch(r)
  \/ \E r \in Reqs : TlSet(r)
  \/ \E r \in Reqs : TlRefetch(r)
  \/ \E r \in Reqs : TlOverlay(r)
  \/ \E r \in Reqs, v \in Readers, g \in UserIds : StartFollow(r, v, g)
  \/ \E r \in Reqs : FollowInsert(r)
  \/ \E r \in Reqs, v \in Readers, g \in UserIds : StartUnfollow(r, v, g)
  \/ \E r \in Reqs, v \in Authors : StartCreate(r, v, NoArg)
  \/ \E r \in Reqs, v \in Readers, t \in TweetIds : StartLike(r, v, t)
  \/ \E r \in Reqs : LikeInsert(r)
  \/ \E r \in Reqs : LikeDel(r)
  \/ \E r \in Reqs : Commit(r)
  \/ \E r \in Reqs : InvKeys(r)
  \/ \E r \in Reqs : InvDel(r)
  \/ \E e \in Messages : EachMessage(e)
  \/ ConsumerDel

SpecFaults == FaultInit /\ [][FaultNext]_vars

\* Statements and COMMITs of transactions may fail; tweets may be replies.
TxEnv == [reads |-> {"primary"}, txOk |-> BOOLEAN, cacheOk |-> {TRUE}, pubs |-> {"json"},
          slots |-> MaxReqs]

TxInit == Boot /\ env = TxEnv

TxNext ==
  \/ \E r \in Reqs, v \in Readers, l \in Limits, o \in Offsets : StartTimeline(r, v, l, o)
  \/ \E r \in Reqs : TlFetch(r)
  \/ \E r \in Reqs : TlSet(r)
  \/ \E r \in Reqs : TlOverlay(r)
  \/ \E r \in Reqs, v \in Readers, g \in UserIds : StartFollow(r, v, g)
  \/ \E r \in Reqs : FollowInsert(r)
  \/ \E r \in Reqs, v \in Readers, g \in UserIds : StartUnfollow(r, v, g)
  \/ \E r \in Reqs, v \in Users, p \in {NoArg} \cup TweetIds : StartCreate(r, v, p)
  \/ \E r \in Reqs : CreateUpdate(r)
  \/ \E r \in Reqs, v \in Readers, t \in TweetIds : StartLike(r, v, t)
  \/ \E r \in Reqs : LikeInsert(r)
  \/ \E r \in Reqs : LikeDel(r)
  \/ \E r \in Reqs : Commit(r)
  \/ \E r \in Reqs : InvKeys(r)
  \/ \E r \in Reqs : InvDel(r)

SpecTx == TxInit /\ [][TxNext]_vars

\* The clock runs and pages expire; nothing fails and the replica never
\* answers, so every read sees the primary. Users read the first page, user 11
\* posts, and no event reaches the consumer.
FirstPage == {o \in Offsets : \A x \in Offsets : o <= x}

TTLEnv == [reads |-> {"primary"}, txOk |-> {TRUE}, cacheOk |-> {TRUE}, pubs |-> {"fail"},
           slots |-> MaxReqsTTL]

\* The Store once every reader follows every author.
Followed == [EmptyStore EXCEPT !.follows = {<<v, g>> : v \in Readers, g \in Authors},
                               !.frows = [p \in {<<v, g>> : v \in Readers, g \in Authors} |-> 1],
                               !.users = [u \in Users |->
                                            [follower_count |-> IF u \in Authors THEN Cardinality(Readers) ELSE 0,
                                             following_count |-> IF u \in Readers THEN Cardinality(Authors) ELSE 0]]]

\* The state in which the first request, user 1's follow of user 11, has been
\* answered and replicated: the state StartFollow, FollowInsert, Commit,
\* InvKeys and Replicate lead to from Boot.
TTLInit ==
  /\ primary = Followed
  /\ replica = Followed
  /\ nextId = 1
  /\ cache = <<>>
  /\ events = {}
  /\ consumer = [pc |-> "poll", keys |-> {}, errors |-> 0]
  /\ now = 0
  /\ reqs = [r \in Reqs |-> IF \A x \in Reqs : r <= x THEN Done ELSE Idle]
  /\ \E v \in Readers, g \in Authors :
       resp = [NoResp EXCEPT !.n = 1, !.kind = "follow", !.user = v, !.arg = g,
                             !.status = 200, !.nwrites = 1, !.committed = TRUE,
                             !.invalidated = TRUE, !.pubErr = TRUE]
  /\ followAcked = Readers
  /\ delivered = {}
  /\ postedAt = <<>>
  /\ env = TTLEnv
  /\ io = NoSockets
  /\ primaryPool = NoCalls

TTLNext ==
  \/ \E r \in Reqs, v \in Users, l \in Limits, o \in FirstPage : StartTimeline(r, v, l, o)
  \/ \E r \in Reqs : TlFetch(r)
  \/ \E r \in Reqs : TlSet(r)
  \/ \E r \in Reqs : TlOverlay(r)
  \/ \E r \in Reqs, v \in Authors : StartCreate(r, v, NoArg)
  \/ \E r \in Reqs : Commit(r)
  \/ \E r \in Reqs : InvKeys(r)
  \/ \E r \in Reqs : InvDel(r)
  \/ Tick

SpecTTL == TTLInit /\ [][TTLNext]_vars

\* Redis holds pages of empty timelines from earlier reads; posts and likes
\* invalidate in the request and, through their events, in the consumer.
PageKeys == {TimelineKey(v, l, o) : v \in Users, l \in Limits, o \in Offsets}

CacheEnv == [reads |-> {"primary"}, txOk |-> {TRUE}, cacheOk |-> {TRUE}, pubs |-> {"json"},
             slots |-> MaxReqs]

CacheInit ==
  /\ BootStore
  /\ env = CacheEnv
  /\ \E S \in SUBSET PageKeys :
       cache = [k \in S |-> [val |-> <<>>, exp |-> TimelineTTL, snap |-> EmptyStore, by |-> 0,
                            over |-> FALSE]]

CacheNext ==
  \/ \E r \in Reqs, v \in Authors : StartCreate(r, v, NoArg)
  \/ \E r \in Reqs, v \in Readers, t \in TweetIds : StartLike(r, v, t)
  \/ \E r \in Reqs : LikeInsert(r)
  \/ \E r \in Reqs : LikeDel(r)
  \/ \E r \in Reqs : Commit(r)
  \/ \E r \in Reqs : InvKeys(r)
  \/ \E r \in Reqs : InvDel(r)
  \/ \E e \in Messages : EachMessage(e)
  \/ ConsumerDel

SpecCache == CacheInit /\ [][CacheNext]_vars

\* The bus: Redis holds a page of every empty timeline from earlier reads; user 11
\* posts and user 1 likes through either producer, nothing fails, and the
\* consumer's loop keeps taking the messages that are waiting.
BusEnv == [reads |-> {"primary"}, txOk |-> {TRUE}, cacheOk |-> {TRUE},
           pubs |-> {"json", "avro"}, slots |-> MaxReqs]

BusInit ==
  /\ BootStore
  /\ env = BusEnv
  /\ cache = [k \in PageKeys |-> [val |-> <<>>, exp |-> TimelineTTL, snap |-> EmptyStore, by |-> 0,
                            over |-> FALSE]]

BusNext ==
  \/ \E r \in Reqs, v \in Authors : StartCreate(r, v, NoArg)
  \/ \E r \in Reqs, v \in Readers, t \in TweetIds : StartLike(r, v, t)
  \/ \E r \in Reqs : LikeInsert(r)
  \/ \E r \in Reqs : LikeDel(r)
  \/ \E r \in Reqs : Commit(r)
  \/ \E r \in Reqs : InvKeys(r)
  \/ \E r \in Reqs : InvDel(r)
  \/ \E e \in Messages : EachMessage(e)
  \/ ConsumerDel

\* consumer.run: the loop fetches and handles messages for as long as it runs.
SpecBus ==
  /\ BusInit /\ [][BusNext]_vars
  /\ WF_vars(\E e \in Messages : EachMessage(e))
  /\ WF_vars(ConsumerDel)

\* The feed-service: tweet 1 of user 11 is there, and users read it, like it,
\* retweet it and delete it while they read their timelines. Nothing fails and
\* every read sees the primary.
FeedEnv == [reads |-> {"primary"}, txOk |-> {TRUE}, cacheOk |-> {TRUE}, pubs |-> {"json"},
            slots |-> MaxReqsTTL]

\* The Store once the first author has posted the first tweet.
Posted == ApplyOp(EmptyStore, Op("ins_tweet", 1, CHOOSE a \in Authors : TRUE, NoArg))

\* The state in which the first request, user 11's post, has been answered,
\* replicated, and its message consumed: the state StartCreate, Commit, InvKeys,
\* EachMessage and Replicate lead to from Boot.
FeedInit ==
  /\ primary = Posted
  /\ replica = Posted
  /\ nextId = 2
  /\ cache = <<>>
  /\ events = {}
  /\ consumer = [pc |-> "poll", keys |-> {}, errors |-> 0]
  /\ now = 0
  /\ reqs = [r \in Reqs |-> IF \A x \in Reqs : r <= x THEN Done ELSE Idle]
  /\ \E a \in Authors :
       resp = [NoResp EXCEPT !.n = 1, !.kind = "create", !.user = a, !.tid = 1,
                             !.status = FeedErrorHandler("io"), !.err = "io", !.nwrites = 1,
                             !.committed = TRUE, !.invalidated = TRUE]
  /\ followAcked = {}
  /\ delivered = {1}
  /\ postedAt = (1 :> [at |-> 0, author |-> CHOOSE a \in Authors : TRUE, followers |-> {}])
  /\ env = FeedEnv
  /\ io = NoSockets
  /\ primaryPool = NoCalls

FeedNext ==
  \/ \E r \in Reqs, v \in Users, l \in Limits, o \in FirstPage : StartTimeline(r, v, l, o)
  \/ \E r \in Reqs : TlFetch(r)
  \/ \E r \in Reqs : TlSet(r)
  \/ \E r \in Reqs : TlOverlay(r)
  \/ \E r \in Reqs, v \in Users \cup {Anonymous}, t \in TweetIds : StartDetail(r, v, t)
  \/ \E r \in Reqs : DetailFetch(r)
  \/ \E r \in Reqs : DetailSet(r)
  \/ \E r \in Reqs, v \in Readers, t \in TweetIds : StartLike(r, v, t)
  \/ \E r \in Reqs : LikeInsert(r)
  \/ \E r \in Reqs : Commit(r)
  \/ \E r \in Reqs : LikeDel(r)
  \/ \E r \in Reqs, v \in Readers, t \in TweetIds : StartUnlike(r, v, t)
  \/ \E r \in Reqs, v \in Readers, t \in TweetIds : StartRetweet(r, v, t)
  \/ \E r \in Reqs : RetweetInsert(r)
  \/ \E r \in Reqs : RetweetUpdate(r)
  \/ \E r \in Reqs, v \in Readers, t \in TweetIds : StartUnretweet(r, v, t)
  \/ \E r \in Reqs : UnretweetUpdate(r)
  \/ \E r \in Reqs : CommitQuiet(r)
  \/ \E r \in Reqs : TweetKeyDel(r)
  \/ \E r \in Reqs, v \in Users, t \in TweetIds : StartDelete(r, v, t)
  \/ \E r \in Reqs : DeleteDel(r)
  \/ \E r \in Reqs : InvKeys(r)
  \/ \E r \in Reqs : InvDel(r)
  \/ \E e \in Messages : EachMessage(e)

SpecFeed == FeedInit /\ [][FeedNext]_vars

\* Real-time notification: sockets join timeline rooms while user 1 follows
\* user 11 and user 11 posts. Nothing fails and every read sees the primary.
SocketEnv == [reads |-> {"primary"}, txOk |-> {TRUE}, cacheOk |-> {TRUE}, pubs |-> {"json"},
              slots |-> MaxReqs]

SocketInit == Boot /\ env = SocketEnv

SocketNext ==
  \/ \E s \in Users, u \in Users : JoinTimeline(s, u)
  \/ \E r \in Reqs, v \in Readers, g \in Authors : StartFollow(r, v, g)
  \/ \E r \in Reqs : FollowInsert(r)
  \/ \E r \in Reqs, v \in Authors : StartCreate(r, v, NoArg)
  \/ \E r \in Reqs : Commit(r)
  \/ \E r \in Reqs : InvKeys(r)

SpecSocket == SocketInit /\ [][SocketNext]_vars

\* Threads: users post tweets and replies and delete their own tweets. Nothing
\* fails, every read sees the primary, and no event reaches the bus.
ThreadEnv == [reads |-> {"primary"}, txOk |-> {TRUE}, cacheOk |-> {TRUE}, pubs |-> {"fail"},
              slots |-> MaxReqs]

ThreadInit == Boot /\ env = ThreadEnv

ThreadNext ==
  \/ \E r \in Reqs, v \in Users, p \in {NoArg} \cup TweetIds : StartCreate(r, v, p)
  \/ \E r \in Reqs : CreateUpdate(r)
  \/ \E r \in Reqs : Commit(r)
  \/ \E r \in Reqs, v \in Users, t \in TweetIds : StartDelete(r, v, t)
  \/ \E r \in Reqs : DeleteDel(r)
  \/ \E r \in Reqs : InvKeys(r)

SpecThread == ThreadInit /\ [][ThreadNext]_vars

\* Writes that find nothing to change: Redis holds a page of every empty timeline
\* from earlier reads; users follow and unfollow any id, user 11 posts, user 1
\* likes and unlikes, and users delete tweets, their own or not. Nothing fails,
\* and the messages stay on the bus.
WriteEnv == [reads |-> {"primary"}, txOk |-> {TRUE}, cacheOk |-> {TRUE}, pubs |-> {"json"},
             slots |-> MaxReqs]

WriteInit ==
  /\ BootStore
  /\ env = WriteEnv
  /\ cache = [k \in PageKeys |-> [val |-> <<>>, exp |-> TimelineTTL, snap |-> EmptyStore, by |-> 0,
                                  over |-> FALSE]]

WriteNext ==
  \/ \E r \in Reqs, v \in Users, g \in UserIds : StartFollow(r, v, g)
  \/ \E r \in Reqs : FollowInsert(r)
  \/ \E r \in Reqs, v \in Users, g \in UserIds : StartUnfollow(r, v, g)
  \/ \E r \in Reqs, v \in Authors : StartCreate(r, v, NoArg)
  \/ \E r \in Reqs, v \in Readers, t \in TweetIds : StartLike(r, v, t)
  \/ \E r \in Reqs : LikeInsert(r)
  \/ \E r \in Reqs : LikeDel(r)
  \/ \E r \in Reqs, v \in Readers, t \in TweetIds : StartUnlike(r, v, t)
  \/ \E r \in Reqs : TweetKeyDel(r)
  \/ \E r \in Reqs, v \in Users, t \in TweetIds : StartDelete(r, v, t)
  \/ \E r \in Reqs : DeleteDel(r)
  \/ \E r \in Reqs : Commit(r)
  \/ \E r \in Reqs : InvKeys(r)
  \/ \E r \in Reqs : InvDel(r)

SpecWrites == WriteInit /\ [][WriteNext]_vars

\* The transaction helper on its own: calls of db.transaction in which the
\* connect, BEGIN, the callback, COMMIT and ROLLBACK may each fail.
PoolEnv == [reads |-> {"primary"}, txOk |-> BOOLEAN, cacheOk |-> {TRUE}, pubs |-> {"json"},
            slots |-> MaxReqs]

PoolInit == Boot /\ env = PoolEnv

PoolNext ==
  \/ \E c \in Calls : TxConnect(c)
  \/ \E c \in Calls : TxBegin(c)
  \/ \E c \in Calls : TxCallback(c)
  \/ \E c \in Calls : TxCommit(c)
  \/ \E c \in Calls : TxRollback(c)
  \/ \E c \in Calls : TxFinally(c)

SpecPool == PoolInit /\ [][PoolNext]_vars

\* ------------------------------------------------------------------ claims
\* C1: after a follow or unfollow by viewer V has been answered, V's very next
\* timeline call returns the page the fan-out query gives over the primary
\* (when no commit happened while the call ran).
C1_FollowImmediacy ==
  (resp.kind = "timeline" /\ resp.status = 200 /\ resp.afterFollow /\ ~resp.dirty)
    => resp.page = resp.expect

\* C2: every entry a timeline call returns carries the counts and the viewer's
\* isLiked / isRetweeted flags of the primary at the time of the call (when no
\* commit happened while the call ran), hit or miss.
C2_LiveCounters ==
  (resp.kind = "timeline" /\ resp.status = 200 /\ ~resp.dirty) => resp.live

OnPage(ids) == {ids[i] : i \in 1..Len(ids)}

\* C4: a follower of the author at the time of a post, calling the timeline
\* TimelineTTL seconds or more after the post, with no event for the post
\* delivered, gets the tweet on the page where the primary has it (the page
\* having been computed with the follow edges the primary has now).
C4_TTLHealing ==
  (resp.kind = "timeline" /\ resp.status = 200 /\ ~resp.dirty)
    => \A t \in DOMAIN postedAt :
         ( /\ resp.user \in postedAt[t].followers
           /\ resp.sawFollow
           /\ t \notin delivered
           /\ resp.t0 >= postedAt[t].at + TimelineTTL
           /\ t \in OnPage(resp.expect) )
           => t \in OnPage(resp.page)

\* The patterns and keys the handlers and the consumer invalidate.
Patterns == {TimelinePattern(v) : v \in Users} \cup {AllTimelines}
Keys == PageKeys \cup {TweetKey(t) : t \in TweetIds}

\* C5: on every cache state, del and delPattern are idempotent, commute with
\* one another, leave the cache alone when nothing matches, and a delPattern
\* whose keys were listed before an unrelated key was deleted ends in the same
\* cache as the two deletions one after the other.
C5_InvalidationAlgebra ==
  /\ \A p1 \in Patterns :
       /\ DelPattern(DelPattern(cache, p1), p1) = DelPattern(cache, p1)
       /\ CacheKeys(cache, p1) = {} => DelPattern(cache, p1) = cache
       /\ DOMAIN DelPattern(cache, p1) = {k \in DOMAIN cache : ~GlobMatch(p1, k)}
       /\ \A p2 \in Patterns :
            DelPattern(DelPattern(cache, p1), p2) = DelPattern(DelPattern(cache, p2), p1)
       /\ \A k1 \in Keys :
            /\ Del(DelPattern(cache, p1), k1) = DelPattern(Del(cache, k1), p1)
            /\ ~GlobMatch(p1, k1)
                 => CacheDel(Del(cache, k1), CacheKeys(cache, p1))
                      = Del(DelPattern(cache, p1), k1)
  /\ \A k1 \in Keys :
       /\ Del(Del(cache, k1), k1) = Del(cache, k1)
       /\ k1 \notin DOMAIN cache => Del(cache, k1) = cache
       /\ \A k2 \in Keys : Del(Del(cache, k1), k2) = Del(Del(cache, k2), k1)

\* The consumer is about to delete the keys it listed, some of which a
\* request's delPattern has deleted in the meantime.
C5_Witness ==
  /\ consumer.pc = "del"
  /\ consumer.keys \ DOMAIN cache # {}
  /\ consumer.keys \cap DOMAIN cache # {}

\* C6: when a follow or unfollow is answered with success, no page that was
\* cached under timeline:{F}:* or timeline:{G}:* when the request started is
\* still in the cache.
C6_FollowInvalidatesBoth ==
  (resp.kind \in {"follow", "unfollow"} /\ resp.status = 200) => resp.left = {}

WriteKinds == {"follow", "unfollow", "create", "like"}

\* C7: with the cache failing, a timeline call whose Store reads work still
\* answers 200 with the page an ordinary miss computes, and a write request
\* whose invalidation failed after its commit still answers with success.
C7_CacheUnreachable ==
  /\ (resp.kind = "timeline" /\ resp.cacheErr /\ ~resp.primFail)
       => /\ resp.status = 200
          /\ ~resp.dirty => resp.page = resp.expect
  /\ (resp.kind \in WriteKinds /\ resp.committed /\ resp.cacheErr)
       => resp.status \in {200, 201}

\* A timeline call answered 200 with a non-empty page although a cache call failed.
C7_Witness ==
  resp.kind = "timeline" /\ resp.cacheErr /\ resp.status = 200 /\ resp.page # <<>>

\* C8: when the publish fails after the commit of a create-tweet, like or
\* follow request, the write is in the Store, the in-request invalidation has
\* run, and the response is a success.
C8_PublishFailure ==
  (resp.kind \in {"create", "like", "follow"} /\ resp.pubErr)
    => /\ resp.committed
       /\ resp.invalidated \/ resp.cacheErr
       /\ resp.status \in {200, 201}

\* A like answered 200 after its publish failed.
C8_Witness ==
  resp.kind = "like" /\ resp.pubErr /\ resp.status = 200 /\ resp.invalidated

\* C9: a timeline call one of whose reads failed on the replica and on the
\* primary is answered with a server error.
C9_PrimaryFailureFatal ==
  (resp.kind = "timeline" /\ resp.primFail) => resp.status >= 500

\* A timeline call that failed because a read failed on both instances.
C9_Witness ==
  resp.kind = "timeline" /\ resp.primFail /\ resp.status = 500

\* The replies to tweet t among the committed rows.
Replies(s, t) == {x \in DOMAIN s.tweets : s.tweets[x].reply_to = t}

Conflicts == {"already", "unique"}

\* C11: a write rejected for a conflict (duplicate follow, like or retweet,
\* unique-constraint violation) is answered with a status other than the one
\* the same route answers when a Store statement fails.
C11_ConflictDistinct ==
  (resp.err \in Conflicts) => resp.status # HandlerStatus(resp.kind, "tx")

\* C12: a message the consumer cannot parse is logged and dropped with the
\* cache untouched and the loop still polling; every message on the bus is
\* eventually taken; and a well-formed tweet.created message taken after an
\* error lists every cached timeline page, which the consumer then deletes.
C12_MalformedDropped ==
  /\ [][\A e \in Messages :
          (e \in events /\ e \notin events' /\ ~Parses(e))
            => /\ cache' = cache
               /\ consumer'.pc = "poll"
               /\ consumer'.errors = consumer.errors + 1]_vars
  /\ \A e \in Messages : (e \in events) ~> (e \notin events)
  /\ [][\A e \in Messages :
          (e \in events /\ e \notin events' /\ Parses(e) /\ e.type = "tweet.created"
             /\ consumer.errors > 0)
            => consumer'.keys = CacheKeys(cache, AllTimelines)]_vars
  /\ [][(consumer.pc = "del" /\ consumer'.pc = "poll")
          => DOMAIN cache' \cap consumer.keys = {}]_vars

\* After an unparseable message was dropped, a later tweet.created message has
\* the consumer deleting the cached pages.
C12_Witness ==
  consumer.errors > 0 /\ consumer.pc = "del" /\ consumer.keys \cap DOMAIN cache # {}

\* C13: the step in which a tweet.created message the write path published
\* reaches the consumer lists the cached pages of the tweet's author for
\* deletion, and the consumer then deletes what it listed.
C13_ConsumerInvalidates ==
  /\ [][\A e \in Messages :
          (e \in events /\ e \notin events' /\ e.type = "tweet.created"
             /\ e.key \in DOMAIN primary.tweets)
            => LET ks == CacheKeys(cache, TimelinePattern(primary.tweets[e.key].user_id))
               IN ks # {} => (consumer'.pc = "del" /\ ks \subseteq consumer'.keys)]_vars
  /\ [][(consumer.pc = "del" /\ consumer'.pc = "poll")
          => DOMAIN cache' \cap consumer.keys = {}]_vars

\* The timeline pages of viewer v among the keys of cache c.
PagesOf(c, v) == {k \in DOMAIN c : \E l \in Limits, o \in Offsets : k = TimelineKey(v, l, o)}

\* C14: the delPattern inside author A's create-tweet request lists exactly the
\* cached pages of A, deletes exactly the keys it listed, and leaves every other
\* cache entry, a follower's page included, as it was.
C14_CreateInvalidatesAuthorOnly ==
  [][\A r \in Reqs :
       reqs[r].kind = "create" =>
         /\ (reqs[r].pc = "keys" /\ reqs'[r].pc = "del")
              => (cache' = cache /\ reqs'[r].keys = PagesOf(cache, reqs[r].user))
         /\ (reqs[r].pc = "keys" /\ reqs'[r].pc = "done")
              => (cache' = cache /\ PagesOf(cache, reqs[r].user) = {})
         /\ (reqs[r].pc = "del" /\ reqs'[r].pc = "done")
              => cache' = [k \in DOMAIN cache \ reqs[r].keys |-> cache[k]]]_vars

\* A create-tweet request has deleted its author's pages, and a follower's page,
\* cached before the post, is still there without the tweet the primary's
\* fan-out puts on it.
C14_Witness ==
  /\ resp.kind = "create" /\ resp.invalidated /\ resp.keys # {}
  /\ PagesOf(cache, resp.user) = {}
  /\ \E v \in Followers(primary, resp.user), l \in Limits, o \in Offsets :
       /\ TimelineKey(v, l, o) \in DOMAIN cache
       /\ resp.tid \notin OnPage(Ids(cache[TimelineKey(v, l, o)].val))
       /\ resp.tid \in OnPage(FanOutIds(primary, v, l, o))

\* C15: when the delete of tweet T by its author A is answered with success,
\* neither the entry tweet:{T} nor any page under timeline:{A}:* that was in the
\* cache when the DELETE ran is still there.
C15_DeleteInvalidates ==
  (resp.kind = "delete" /\ resp.status = 200) => resp.left = {}

\* A delete answered with success, with the tweet's entry and a page of the
\* author cached when it started.
C15_Witness ==
  /\ resp.kind = "delete" /\ resp.status = 200
  /\ \E p \in resp.pre : p[1] = TweetKey(resp.arg)
  /\ \E p \in resp.pre, l \in Limits, o \in Offsets : p[1] = TimelineKey(resp.user, l, o)
  /\ resp.arg \notin DOMAIN primary.tweets

\* The routes that change a like or a retweet.
InteractionKinds == {"like", "unlike", "retweet", "unretweet"}

\* C16: no step of a like, unlike, retweet or unretweet request of tweet T, and
\* no step in which the consumer takes a tweet-interactions message about T,
\* changes a timeline page; such a step leaves the cache as it is or deletes
\* tweet:{T} and nothing else.
C16_InteractionsKeepPages ==
  /\ [][\A r \in Reqs :
          (reqs'[r] # reqs[r]
             /\ (reqs[r].kind \in InteractionKinds \/ reqs'[r].kind \in InteractionKinds))
            => LET t == IF reqs[r].pc = "idle" THEN reqs'[r].arg ELSE reqs[r].arg
               IN /\ cache' \in {cache, CacheDel(cache, {TweetKey(t)})}
                  /\ \A k \in PageKeys : k \in DOMAIN cache
                                           => (k \in DOMAIN cache' /\ cache'[k] = cache[k])]_vars
  /\ [][\A e \in Messages :
          (e \in events /\ e \notin events' /\ e.topic = "tweet-interactions")
            => /\ cache' \in {cache, CacheDel(cache, {TweetKey(e.key)})}
               /\ consumer'.pc = "poll"
               /\ \A k \in PageKeys : k \in DOMAIN cache
                                        => (k \in DOMAIN cache' /\ cache'[k] = cache[k])]_vars

\* An interaction request answered with success: the tweet's entry, cached when
\* it started, is gone, and a timeline page with the tweet on it is still cached.
C16_Witness ==
  /\ resp.kind \in InteractionKinds /\ resp.status = 200 /\ resp.invalidated
  /\ resp.pre # {} /\ resp.left = {}
  /\ \E k \in DOMAIN cache \cap PageKeys : resp.arg \in OnPage(Ids(cache[k].val))

\* C17: a timeline call of viewer V that started after V's like of tweet T was
\* answered, and during which nothing was committed, reports every entry for T
\* it returns with isLiked = TRUE and the like_count that includes the like,
\* whether the page came from the cache or from the Store.
C17_LikeVisible ==
  (resp.kind = "timeline" /\ resp.status = 200 /\ ~resp.dirty)
    => \A i \in 1..Len(resp.out) :
         resp.out[i].id \in DOMAIN resp.liked
           => /\ resp.out[i].isLiked
              /\ resp.out[i].like_count = resp.liked[resp.out[i].id]

\* C18: the follows table never holds a pair (u, u) nor two rows with the same
\* pair; a follow request that starts as a self-follow or on an existing edge
\* does not get past its first step, and a follow answered without a commit is
\* answered with an error and has left the Store as it was.
C18_FollowEdges ==
  /\ [](\A u \in UserIds : <<u, u>> \notin primary.follows)
  /\ [](/\ DOMAIN primary.frows = primary.follows
        /\ \A p \in DOMAIN primary.frows : primary.frows[p] = 1)
  /\ [][\A r \in Reqs :
          (reqs[r].pc = "idle" /\ reqs'[r].kind = "follow")
            => /\ reqs'[r].user # reqs'[r].arg
               /\ <<reqs'[r].user, reqs'[r].arg>> \notin primary.follows]_vars
  /\ [][(resp'.n # resp.n /\ resp'.kind = "follow" /\ ~resp'.committed)
          => (resp'.status >= 400 /\ primary' = primary)]_vars

\* A repeated follow that passed the route's SELECT while the first one was
\* still open, and was rejected by the UNIQUE constraint.
C18_Witness ==
  /\ resp.kind = "follow" /\ resp.err = "unique" /\ resp.status = 409
  /\ <<resp.user, resp.arg>> \in primary.follows

\* The tweets of Store state s written by v or by someone v follows.
Eligible(s, v) ==
  {t \in DOMAIN s.tweets : s.tweets[t].user_id = v \/ <<v, s.tweets[t].user_id>> \in s.follows}

\* ids is the page (limit, offset) of v's timeline over s: newest first, and
\* holding exactly the eligible tweets with at least offset and fewer than
\* offset + limit eligible tweets newer than them.
IsTimelinePage(ids, s, v, limit, offset) ==
  /\ Len(ids) <= limit
  /\ \A i \in 1..(Len(ids) - 1) : ids[i] > ids[i + 1]
  /\ OnPage(ids) = {t \in Eligible(s, v) :
                      LET newer == Cardinality({x \in Eligible(s, v) : x > t})
                      IN newer >= offset /\ newer < offset + limit}

\* C19: on a miss, the page GetTimeline(V, limit, offset) computes, and the one
\* it returns, holds exactly the tweets of the Store state it read that V or a
\* user V follows wrote, newest first, without the first offset of them and at
\* most limit long; no tweet of a user V does not follow there is on it.
C19_MissPage ==
  /\ [](\A r \in Reqs :
          (reqs[r].kind = "timeline" /\ ~reqs[r].hit /\ reqs[r].pc \in {"set", "overlay"})
            => IsTimelinePage(Ids(reqs[r].page), reqs[r].snap, reqs[r].user,
                              reqs[r].limit, reqs[r].offset))
  /\ [][\A r \in Reqs :
          (reqs[r].kind = "timeline" /\ ~reqs[r].hit /\ reqs'[r].pc = "done"
             /\ resp'.status = 200)
            => /\ resp'.page = Ids(reqs[r].page)
               /\ Ids(resp'.out) = resp'.page]_vars

\* A miss that returned a tweet of a user the viewer follows.
C19_Witness ==
  /\ resp.kind = "timeline" /\ ~resp.hit /\ resp.status = 200
  /\ \E t \in OnPage(resp.page) :
       t \in DOMAIN primary.tweets /\ primary.tweets[t].user_id # resp.user

\* In this step a timeline request that missed stores its page under key k.
PopulateOnMiss(k) ==
  \E r \in Reqs :
    /\ reqs[r].kind = "timeline" /\ reqs[r].pc = "set" /\ reqs'[r].pc # "set" /\ ~reqs[r].hit
    /\ k = TimelineKey(reqs[r].user, reqs[r].limit, reqs[r].offset)
    /\ cache'[k].val = reqs[r].page
    /\ cache'[k].exp = now + TimelineTTL

\* In this step the TTL of key k runs out.
Expires(k) == now' > now /\ cache[k].exp <= now'

\* In this step a request's or the consumer's delPattern deletes key k.
Invalidates(k) ==
  \/ \E r \in Reqs : reqs[r].pc = "del" /\ reqs'[r].pc = "done" /\ k \in reqs[r].keys
  \/ consumer.pc = "del" /\ consumer'.pc = "poll" /\ k \in consumer.keys

\* In this step the entry under key k keeps its value and its expiry time.
Kept(k) == cache'[k].val = cache[k].val /\ cache'[k].exp = cache[k].exp

\* C20 as stated: a timeline page key is absent or populated (and then not yet
\* expired); it becomes populated only by the populate-on-miss of a timeline
\* call; a populated page never changes in place, and it becomes absent only by
\* TTL expiry or by invalidation.
C20_PageLifecycle ==
  /\ [](\A k \in DOMAIN cache : cache[k].exp > now)
  /\ [][\A k \in PageKeys :
          /\ (k \notin DOMAIN cache /\ k \in DOMAIN cache') => PopulateOnMiss(k)
          /\ (k \in DOMAIN cache /\ k \in DOMAIN cache') => Kept(k)
          /\ (k \in DOMAIN cache /\ k \notin DOMAIN cache') => (Expires(k) \/ Invalidates(k))]_vars

\* C20, amended: as above, except that a populated page is replaced in place,
\* with a new TTL, when a timeline call that missed before the page was
\* populated stores its own page.
C20_PageLifecycleAmended ==
  /\ [](\A k \in DOMAIN cache : cache[k].exp > now)
  /\ [][\A k \in PageKeys :
          /\ (k \notin DOMAIN cache /\ k \in DOMAIN cache') => PopulateOnMiss(k)
          /\ (k \in DOMAIN cache /\ k \in DOMAIN cache' /\ ~Kept(k)) => PopulateOnMiss(k)
          /\ (k \in DOMAIN cache /\ k \notin DOMAIN cache') => (Expires(k) \/ Invalidates(k))]_vars

\* A cached page with a non-empty list of tweets that overwrote an entry already present.
C20_Witness ==
  \E k \in DOMAIN cache \cap PageKeys : cache[k].over /\ cache[k].val # <<>>

\* The cache key a timeline request reads and populates.
KeyOf(q) == TimelineKey(q.user, q.limit, q.offset)

\* C21: two timeline requests for the same (viewer, limit, offset) that both
\* missed and are both about to populate hold the same page, and a
\* populate-on-miss that lands on a page another request has populated in the
\* meantime leaves the list of tweets of that page as it was.
C21_ConcurrentPopulate ==
  /\ [](\A r1, r2 \in Reqs :
          ( /\ reqs[r1].kind = "timeline" /\ reqs[r1].pc = "set"
            /\ reqs[r2].kind = "timeline" /\ reqs[r2].pc = "set"
            /\ KeyOf(reqs[r1]) = KeyOf(reqs[r2]) )
            => Ids(reqs[r1].page) = Ids(reqs[r2].page))
  /\ [][\A k \in PageKeys :
          (k \in DOMAIN cache /\ PopulateOnMiss(k)) => Ids(cache'[k].val) = Ids(cache[k].val)]_vars

\* C22: once a create-tweet request has been answered, every user who followed
\* the author when the tweet was committed and whose socket was in that user's
\* own timeline room when the request ended has been sent the tweet-created
\* message of the tweet.
C22_FollowersNotified ==
  [][(resp'.n # resp.n /\ resp'.kind = "create" /\ resp'.committed)
       => \A f \in postedAt[resp'.tid].followers :
            <<f, TimelineRoom(f)>> \in io.rooms => <<f, resp'.tid>> \in io'.sent]_vars

\* The isLiked of a tweet-detail row is viewer v's own: absent for a request
\* without a user, v's like of tweet t in Store state s otherwise.
OwnFlag(row, s, v, t) ==
  IF v = Anonymous THEN "isLiked" \notin DOMAIN row
  ELSE "isLiked" \in DOMAIN row /\ row.isLiked = (<<v, t>> \in s.likes)

\* C23: the row a tweet-detail request of viewer B for tweet T reads from the
\* Store, and the row a cache hit on tweet:{T} sends to B, carries B's own
\* isLiked (none when B is anonymous), whoever populated the entry.
C23_DetailOwnFlag ==
  /\ [][\A r \in Reqs :
          (reqs[r].kind = "detail" /\ reqs[r].pc = "fetch" /\ reqs'[r].pc = "set")
            => OwnFlag(reqs'[r].page[1], primary, reqs[r].user, reqs[r].arg)]_vars
  /\ [][(resp'.n # resp.n /\ resp'.kind = "detail" /\ resp'.hit)
          => OwnFlag(cache[TweetKey(resp'.arg)].val[1], primary, resp'.user, resp'.arg)]_vars

\* C24: a first-page timeline call of user A that started after A's
\* create-tweet request for a tweet was answered, and during which nothing was
\* committed, has the tweet on its page when the primary's fan-out has it
\* there; and it has no tweet on its page whose delete by A was answered before
\* the call started.
C24_AuthorReadsOwnWrites ==
  (resp.kind = "timeline" /\ resp.status = 200 /\ resp.offset \in FirstPage /\ ~resp.dirty)
    => /\ \A t \in resp.own : t \in OnPage(resp.expect) => t \in OnPage(resp.page)
       /\ \A t \in resp.gone : t \notin OnPage(resp.page)

\* The retweet rows of tweet t in Store state s.
RetweetsOf(s, t) == {x \in s.retweets : x[2] = t}

\* C25: in every state of the primary, each tweet's retweet_count is the
\* number of rows the retweets table holds for the tweet, and it is not negative.
C25_RetweetCount ==
  \A t \in DOMAIN primary.tweets :
    /\ primary.tweets[t].retweet_count = Cardinality(RetweetsOf(primary, t))
    /\ primary.tweets[t].retweet_count >= 0

\* C26: in every state of the primary, each tweet's reply_count is the number
\* of tweets there whose reply_to_tweet_id is the tweet.
C26_ReplyCount ==
  \A t \in DOMAIN primary.tweets :
    primary.tweets[t].reply_count = Cardinality(Replies(primary, t))

\* The like rows of tweet t in Store state s.
LikesOf(s, t) == {x \in s.likes : x[2] = t}

\* The rows table and the key a like or follow request inserts.
Inserted(s, q) == IF q.kind = "like" THEN s.likes ELSE s.follows

C28_CreateAnswersAfterCommit ==
  (resp.kind = "create" /\ resp.committed) => resp.status = 201

\* Request q, arriving on Store state s, asks for a write that has nothing to
\* act on: a delete of a tweet q.user did not write (or that does not exist), an
\* unfollow of an edge or an unlike of a like that is not there, a follow of an
\* id that is no user.
Rejected(s, q) ==
  \/ q.kind = "delete" /\ (q.arg \notin DOMAIN s.tweets \/ s.tweets[q.arg].user_id # q.user)
  \/ q.kind = "unfollow" /\ <<q.user, q.arg>> \notin s.follows
  \/ q.kind = "unlike" /\ <<q.user, q.arg>> \notin s.likes
  \/ q.kind = "follow" /\ q.arg # q.user /\ q.arg \notin Users

\* C29: a delete of someone else's tweet, an unfollow of a missing edge, an
\* unlike of a missing like and a follow of a missing user are answered 404 in
\* the step that finds nothing to act on, and that step leaves the Store and the
\* cache as they were and puts no message on the bus.
C29_RejectedWriteNoOp ==
  [][\A r \in Reqs :
       (reqs[r].pc = "idle" /\ reqs'[r] # reqs[r]
          /\ Rejected(primary, IF reqs'[r].pc = "done" THEN resp' ELSE reqs'[r]))
         => /\ reqs'[r].pc = "done"
            /\ resp'.status = 404
            /\ primary' = primary
            /\ cache' = cache
            /\ events' = events]_vars

\* A delete by a user who is not the author, sent after the author's post was
\* answered, was answered 404; the tweet, the user's cached pages and the
\* tweet's message are all still there.
C29_Witness ==
  /\ resp.kind = "delete" /\ resp.status = 404
  /\ resp.arg \in DOMAIN primary.tweets /\ primary.tweets[resp.arg].user_id # resp.user
  /\ resp.arg \in PostedBy(primary.tweets[resp.arg].user_id)
  /\ PagesOf(cache, resp.user) # {}
  /\ events # {}


\* C30: every call of db.transaction that obtained a primary client and has
\* returned or thrown, whichever of BEGIN, the callback, COMMIT or ROLLBACK
\* failed, has committed or attempted a ROLLBACK, and has released its client
\* exactly once; no client is released twice, the number of clients checked
\* out is the number of calls still holding one, and a finished call holds none.
C30_TransactionReleases ==
  /\ primaryPool.out = Cardinality({c \in Calls : primaryPool.calls[c].held})
  /\ \A c \in Calls :
       LET k == primaryPool.calls[c]
       IN /\ k.releases <= 1
          /\ k.held => k.client /\ k.releases = 0
          /\ (k.pc \in {"returned", "threw"} /\ k.client) =>
               /\ k.committed \/ k.rollbacks >= 1
               /\ k.releases = 1
               /\ ~k.held
          /\ k.pc = "returned" => k.committed /\ k.rollbacks = 0
          /\ (k.pc = "threw" /\ k.client) => ~k.committed /\ k.rollbacks = 1

\* Every call has ended and none holds a client: one returned after its COMMIT,
\* one threw the error of a ROLLBACK that itself failed, one threw after a
\* COMMIT that failed and was rolled back.
C30_Witness ==
  /\ primaryPool.out = 0
  /\ \E c \in Calls : primaryPool.calls[c].pc = "returned" /\ primaryPool.calls[c].releases = 1
  /\ \E c \in Calls : /\ primaryPool.calls[c].pc = "threw"
                      /\ primaryPool.calls[c].err = "rollback"
                      /\ primaryPool.calls[c].releases = 1
  /\ \E c \in Calls : /\ primaryPool.calls[c].pc = "threw"
                      /\ primaryPool.calls[c].err = "commit"
                      /\ primaryPool.calls[c].releases = 1
====
